---- MODULE Spec2Model ----
(***************************************************************************)
(* A model of the sora2api generation pipeline.                            *)
(*                                                                         *)
(*   Spec          GenerationHandler.handle_generation and its helpers     *)
(*                 (_handle_remix, _handle_character_creation_only,        *)
(*                 _handle_character_and_video_generation,                 *)
(*                 _poll_task_result) run by concurrent requests over the  *)
(*                 shared token lock table and concurrency counters.       *)
(*   SpecSentinel  SoraClient.generate_video run by concurrent callers     *)
(*                 over the module-global sentinel token cache.            *)
(*   SpecStream    one handle_generation call in detail (what it yields,   *)
(*                 the client methods it calls, the stored task status)    *)
(*                 next to the admin API's cancel_task.                    *)
(*   SpecAdmin     the admin API's session tokens: login, logout, the      *)
(*                 password change and the token check of every endpoint.  *)
(*   SpecPoll      the loop of _poll_task_result against the clock.        *)
(*   SpecPow       SoraClient._solve_pow over the digests of its outputs.  *)
(*   SpecText      the remix prompt cleaner and the storyboard prompt      *)
(*                 functions over short prompts.                           *)
(*   SpecConf      the admin API's token and configuration endpoints: the  *)
(*                 token rows against the concurrency manager, the image   *)
(*                 timeout against the lock timeout, the refresh switch    *)
(*                 against the scheduler. One action is one whole call.    *)
(*   SpecCameo     the loop of _poll_cameo_status.                         *)
(*   SpecSync      scripts/sync_from_gpt_team.py, sync_accounts.           *)
(*                                                                         *)
(* One action is one stretch of handler code between two points at which   *)
(* the coroutine really suspends (an upstream call, a database call, a     *)
(* sleep), so every interleaving of the actions is an interleaving the     *)
(* event loop can produce.                                                 *)
(***************************************************************************)
EXTENDS Integers, FiniteSets, Sequences, TLC

\* ------------------------------------------------------------ bounds
NumRequests == 2
NumTokens == 2
\* max_attempts = int(timeout / poll_interval) of _poll_task_result
MaxAttempts == 2
NumCallers == 2
\* The most urls an image task answers with.
MaxUrls == 2

Requests == 1..NumRequests
TokenIds == 1..NumTokens
Callers == 1..NumCallers

\* The caller's arguments decide the branch of handle_generation:
\*   image            an image model
\*   video            a video model, no video, no remix target
\*                    (generate_video or generate_storyboard)
\*   remix            a video model with remix_target_id
\*   character        a video model with a video and no prompt
\*   character_video  a video model with a video and a prompt
Branches == {"image", "video", "remix", "character", "character_video"}

\* Token.image_concurrency / Token.video_concurrency of the rows of a pool
\* (-1: unlimited).
ImageCaps == {-1, 1}
VideoCaps == {1, 2}

VARIABLES
  tokens,       \* the Token rows: id -> [image_concurrency, video_concurrency]
  token_lock,   \* load_balancer.token_lock: id -> held
  image_used,   \* concurrency_manager: image slots in use, per token
  video_used,   \* concurrency_manager: video slots in use, per token
  req,          \* one record per streaming request (see NewRequest)
  sentinel,     \* _cached_sentinel_token (0: None), PLAYWRIGHT_AVAILABLE
  call,         \* one record per generate_video call (see NewCall)
  run,          \* one handle_generation call in detail (see NewRun)
  admin,        \* the admin cancel_task request (see NewAdmin)
  auth,         \* the admin API's sessions and credentials (see NewAuth)
  poll,         \* one _poll_task_result loop against the clock (see NewPoll)
  pow,          \* one _solve_pow call (see NewPow)
  text,         \* one prompt under the prompt functions (see NewText)
  conf,         \* the admin API's token and configuration state (see NewConf)
  cameo,        \* one _poll_cameo_status loop (see NewCameo)
  sync          \* one run of the sync_from_gpt_team script (see NewSync)

vars == <<tokens, token_lock, image_used, video_used, req, sentinel, call,
          run, admin, auth, poll, pow, text, conf, cameo, sync>>
handlerVars == <<tokens, token_lock, image_used, video_used, req>>
sentinelVars == <<sentinel, call>>
streamVars == <<run, admin>>
opsVars == <<conf, cameo, sync>>
restVars == <<auth, poll, pow, text, opsVars>>

\* ------------------------------------------------------------ requests
NewRequest ==
  [pc |-> "idle",          \* where the handler is
   branch |-> "none",
   tok |-> 0,              \* token_obj.id (0: none selected)
   lockAcq |-> FALSE,      \* acquire_lock returned True for this request
   slotAcq |-> FALSE,      \* acquire_image / acquire_video returned True
   relLock |-> 0,          \* release_lock calls made by this request
   relSlot |-> 0,          \* release_image / release_video calls made
   attempt |-> 0,          \* the poll loop's attempt
   task |-> "none",        \* the stored Task.status of the request's task
   recErr |-> 0,           \* token_manager.record_error calls made
   err |-> "none",         \* kind of the exception that left the handler
   failSeen |-> FALSE,     \* a poll response reported status failed
   pollAfterFail |-> FALSE,\* get_image_tasks was called after that
   atBound |-> FALSE]      \* polling ended at the timeout bound

IsVideo(b) == b \in {"video", "remix", "character", "character_video"}
IsImage(b) == b = "image"

\* Error kinds of spec section 7 that carry no token penalty.
ExemptKinds == {"cancelled", "no_eligible_token", "invalid_model",
                "upstream_unavailable"}
\* What an upstream call can fail with: 403/429 (upstream_unavailable) or
\* any other failure.
UpstreamFailures == {"upstream_error", "upstream_unavailable"}

\* ------------------------------------------------------------ token lock
\* TokenLock.acquire_lock(token_id): True iff nobody holds the lock.
LockFree(t) == ~token_lock[t]
\* TokenLock.release_lock(token_id): keyed by the token id alone.
ReleaseLock(l, t) == [l EXCEPT ![t] = FALSE]

\* ------------------------------------------------------------ concurrency
\* ConcurrencyManager.acquire_*: non-blocking; capacity -1 is unbounded.
SlotFree(used, cap, t) == cap = -1 \/ used[t] < cap
AcquireSlotOf(used, cap, t) ==
  IF cap = -1 THEN used ELSE [used EXCEPT ![t] = @ + 1]
\* ConcurrencyManager.release_*: keyed by the token id alone; releasing when
\* nothing is held changes nothing.
ReleaseSlotOf(used, cap, t) ==
  IF cap = -1 \/ used[t] = 0 THEN used ELSE [used EXCEPT ![t] = @ - 1]

ImageCap(t) == tokens[t].image_concurrency
VideoCap(t) == tokens[t].video_concurrency

\* LoadBalancer.select_token: the tokens that pass the eligibility gates.
\* Every token of the pool is active, enabled and not cooling down; the
\* last gate is lock / slot availability. Selection changes nothing.
Eligible(forImage) ==
  IF forImage
  THEN {t \in TokenIds : LockFree(t) /\ SlotFree(image_used, ImageCap(t), t)}
  ELSE {t \in TokenIds : SlotFree(video_used, VideoCap(t), t)}

\* ------------------------------------------------------------ handler
Set(r, rec) == req' = [req EXCEPT ![r] = rec]

\* A request arrives (stream = true, a model of MODEL_CONFIG). Requests are
\* interchangeable, so they arrive in the order of their numbers.
Start(r) ==
  /\ req[r].pc = "idle"
  /\ \A q \in Requests : q < r => req[q].pc # "idle"
  /\ \E b \in Branches :
       Set(r, [req[r] EXCEPT !.pc = "select", !.branch = b])
  /\ UNCHANGED <<tokens, token_lock, image_used, video_used,
               sentinelVars, streamVars, restVars>>

\* token_obj = await self.load_balancer.select_token(...)
Select(r) ==
  /\ req[r].pc = "select"
  /\ LET b == req[r].branch
         next == CASE b = "image" -> "lock"
                   [] b = "video" -> "slot"
                   [] b = "remix" -> "submit"
                   [] OTHER -> "character"
     IN IF Eligible(IsImage(b)) = {}
        THEN Set(r, [req[r] EXCEPT !.pc = "done", !.err = "no_eligible_token"])
        ELSE \E t \in Eligible(IsImage(b)) :
               Set(r, [req[r] EXCEPT !.pc = next, !.tok = t])
  /\ UNCHANGED <<tokens, token_lock, image_used, video_used,
               sentinelVars, streamVars, restVars>>

\* lock_acquired = await self.load_balancer.token_lock.acquire_lock(id)
AcquireLock(r) ==
  /\ req[r].pc = "lock"
  /\ LET t == req[r].tok
     IN IF LockFree(t)
        THEN /\ token_lock' = [token_lock EXCEPT ![t] = TRUE]
             /\ Set(r, [req[r] EXCEPT !.pc = "slot", !.lockAcq = TRUE])
        ELSE /\ UNCHANGED token_lock
             /\ Set(r, [req[r] EXCEPT !.pc = "done",
                                      !.err = "no_eligible_token"])
  /\ UNCHANGED <<tokens, image_used, video_used,
               sentinelVars, streamVars, restVars>>

\* acquire_image (after the lock) or acquire_video; when acquire_image fails
\* the lock is released before raising. The image argument decides whether
\* an upload comes first.
AcquireSlot(r) ==
  /\ req[r].pc = "slot"
  /\ LET t == req[r].tok
         img == IsImage(req[r].branch)
     IN IF img
        THEN /\ UNCHANGED video_used
             /\ IF SlotFree(image_used, ImageCap(t), t)
                THEN /\ image_used' = AcquireSlotOf(image_used, ImageCap(t), t)
                     /\ UNCHANGED token_lock
                     /\ \E next \in {"upload", "submit"} :
                          Set(r, [req[r] EXCEPT !.pc = next, !.slotAcq = TRUE])
                ELSE /\ UNCHANGED image_used
                     /\ token_lock' = ReleaseLock(token_lock, t)
                     /\ Set(r, [req[r] EXCEPT !.pc = "done",
                                              !.relLock = @ + 1,
                                              !.err = "no_eligible_token"])
        ELSE /\ UNCHANGED <<image_used, token_lock>>
             /\ IF SlotFree(video_used, VideoCap(t), t)
                THEN /\ video_used' = AcquireSlotOf(video_used, VideoCap(t), t)
                     /\ \E next \in {"upload", "submit"} :
                          Set(r, [req[r] EXCEPT !.pc = next, !.slotAcq = TRUE])
                ELSE /\ UNCHANGED video_used
                     /\ Set(r, [req[r] EXCEPT !.pc = "done",
                                              !.err = "no_eligible_token"])
  /\ UNCHANGED <<tokens,
               sentinelVars, streamVars, restVars>>

\* media_id = await self.sora_client.upload_image(...)
UploadImage(r) ==
  /\ req[r].pc = "upload"
  /\ \/ Set(r, [req[r] EXCEPT !.pc = "submit"])
     \/ \E k \in UpstreamFailures :
          Set(r, [req[r] EXCEPT !.pc = "except", !.err = k])
  /\ UNCHANGED <<tokens, token_lock, image_used, video_used,
               sentinelVars, streamVars, restVars>>

\* The character steps of the two character branches (upload, cameo poll,
\* avatar, finalize, and for character creation alone set_character_public
\* and the final chunk).
CreateCharacter(r) ==
  /\ req[r].pc = "character"
  /\ \/ Set(r, [req[r] EXCEPT
                  !.pc = IF req[r].branch = "character" THEN "done"
                         ELSE "submit"])
     \/ \E k \in UpstreamFailures :
          Set(r, [req[r] EXCEPT !.pc = "except", !.err = k])
  /\ UNCHANGED <<tokens, token_lock, image_used, video_used,
               sentinelVars, streamVars, restVars>>

\* generate_image / generate_video / generate_storyboard / remix_video, then
\* db.create_task(status "processing") and record_usage.
Submit(r) ==
  /\ req[r].pc = "submit"
  /\ \/ Set(r, [req[r] EXCEPT !.pc = "poll", !.task = "processing",
                              !.attempt = 0])
     \/ \E k \in UpstreamFailures :
          Set(r, [req[r] EXCEPT !.pc = "except", !.err = k])
  /\ UNCHANGED <<tokens, token_lock, image_used, video_used,
               sentinelVars, streamVars, restVars>>

\* `except Exception as e` of the poll loop: re-raised on the last attempt
\* only, swallowed (continue) on every other.
PollRaise(rec, kind, bound) ==
  IF rec.attempt >= MaxAttempts - 1
  THEN [rec EXCEPT !.pc = "except", !.err = kind, !.atBound = bound]
  ELSE [rec EXCEPT !.attempt = @ + 1]

\* One pass of the poll loop whose elapsed-time check passes: sleep, one
\* get_image_tasks / get_pending_tasks (+ get_video_drafts) call, and the
\* handling of its answer.
PollAttempt(r) ==
  /\ req[r].pc = "poll"
  /\ req[r].attempt < MaxAttempts
  /\ LET rec == [req[r] EXCEPT
                   !.pollAfterFail = @ \/ (IsImage(req[r].branch)
                                           /\ req[r].failSeen)]
     IN \/ \* still pending (or not listed, or succeeded without a url)
           Set(r, [rec EXCEPT !.attempt = @ + 1])
        \/ \* succeeded / found in the drafts: update_task(completed), return
           Set(r, [rec EXCEPT !.pc = "success", !.task = "completed"])
        \/ \* image: status failed: update_task(failed), raise
           /\ IsImage(rec.branch)
           /\ Set(r, PollRaise([rec EXCEPT !.task = "failed",
                                           !.failSeen = TRUE],
                               "upstream_error", FALSE))
        \/ \* the poll call itself raised
           \E k \in UpstreamFailures : Set(r, PollRaise(rec, k, TRUE))
  /\ UNCHANGED <<tokens, token_lock, image_used, video_used,
               sentinelVars, streamVars, restVars>>

\* The release calls _poll_task_result makes on both of its timeout paths.
PollRelease(r) ==
  LET t == req[r].tok
  IN IF IsVideo(req[r].branch)
     THEN /\ video_used' = ReleaseSlotOf(video_used, VideoCap(t), t)
          /\ UNCHANGED <<token_lock, image_used>>
          /\ Set(r, [req[r] EXCEPT !.pc = "timeout", !.relSlot = @ + 1])
     ELSE /\ token_lock' = ReleaseLock(token_lock, t)
          /\ image_used' = ReleaseSlotOf(image_used, ImageCap(t), t)
          /\ UNCHANGED video_used
          /\ Set(r, [req[r] EXCEPT !.pc = "timeout", !.relLock = @ + 1,
                                   !.relSlot = @ + 1])

\* `if elapsed_time > timeout` at the top of a pass. No time has passed
\* before the first pass, so the check can only fire from the second on.
PollElapsedTimeout(r) ==
  /\ req[r].pc = "poll"
  /\ req[r].attempt >= 1
  /\ req[r].attempt < MaxAttempts
  /\ PollRelease(r)
  /\ UNCHANGED <<tokens,
               sentinelVars, streamVars, restVars>>

\* The code after the loop: all max_attempts passes are used.
PollMaxAttempts(r) ==
  /\ req[r].pc = "poll"
  /\ req[r].attempt = MaxAttempts
  /\ PollRelease(r)
  /\ UNCHANGED <<tokens,
               sentinelVars, streamVars, restVars>>

\* await self.db.update_task(task_id, "failed", 0, ...); raise Exception(
\* "Upstream API timeout: ...")
PollTimeoutFail(r) ==
  /\ req[r].pc = "timeout"
  /\ Set(r, [req[r] EXCEPT !.pc = "except", !.task = "failed",
                           !.err = "upstream_timeout", !.atBound = TRUE])
  /\ UNCHANGED <<tokens, token_lock, image_used, video_used,
               sentinelVars, streamVars, restVars>>

\* After the poll loop returned: record_success, then (handle_generation
\* only) the releases of the success path.
HandlerSuccess(r) ==
  /\ req[r].pc = "success"
  /\ LET t == req[r].tok
         b == req[r].branch
     IN CASE b = "image" ->
               /\ token_lock' = ReleaseLock(token_lock, t)
               /\ image_used' = ReleaseSlotOf(image_used, ImageCap(t), t)
               /\ UNCHANGED video_used
               /\ Set(r, [req[r] EXCEPT !.pc = "done", !.relLock = @ + 1,
                                        !.relSlot = @ + 1])
          [] b = "video" ->
               /\ video_used' = ReleaseSlotOf(video_used, VideoCap(t), t)
               /\ UNCHANGED <<token_lock, image_used>>
               /\ Set(r, [req[r] EXCEPT !.pc = "done", !.relSlot = @ + 1])
          [] OTHER ->
               /\ UNCHANGED <<token_lock, image_used, video_used>>
               /\ Set(r, [req[r] EXCEPT !.pc = "done"])
  /\ UNCHANGED <<tokens,
               sentinelVars, streamVars, restVars>>

\* Whether the `except Exception` clause of the request's branch calls
\* token_manager.record_error.
RecordsError(b) == b # "character"

\* The `except Exception` clause of the request's branch.
HandlerExcept(r) ==
  /\ req[r].pc = "except"
  /\ LET t == req[r].tok
         b == req[r].branch
         n == IF RecordsError(b) THEN 1 ELSE 0
     IN CASE b = "image" ->
               /\ token_lock' = ReleaseLock(token_lock, t)
               /\ image_used' = ReleaseSlotOf(image_used, ImageCap(t), t)
               /\ UNCHANGED video_used
               /\ Set(r, [req[r] EXCEPT !.pc = "done", !.relLock = @ + 1,
                                        !.relSlot = @ + 1, !.recErr = @ + n])
          [] b = "video" ->
               /\ video_used' = ReleaseSlotOf(video_used, VideoCap(t), t)
               /\ UNCHANGED <<token_lock, image_used>>
               /\ Set(r, [req[r] EXCEPT !.pc = "done", !.relSlot = @ + 1,
                                        !.recErr = @ + n])
          [] OTHER ->
               /\ UNCHANGED <<token_lock, image_used, video_used>>
               /\ Set(r, [req[r] EXCEPT !.pc = "done", !.recErr = @ + n])
  /\ UNCHANGED <<tokens,
               sentinelVars, streamVars, restVars>>

\* The suspension points inside the try block of a handler.
InTry(rec) == rec.pc \in {"upload", "character", "submit", "poll", "timeout",
                          "success"}

\* Whether the handler's clauses run for the exception that cancellation
\* raises at a suspension point (GeneratorExit when the stream is closed,
\* asyncio.CancelledError when the task is cancelled). Both derive from
\* BaseException, and the clauses are `except Exception`.
CatchesCancellation == FALSE

\* The caller stops consuming the stream, or the task is cancelled.
Cancel(r) ==
  /\ InTry(req[r])
  /\ IF CatchesCancellation
     THEN Set(r, [req[r] EXCEPT !.pc = "except", !.err = "cancelled"])
     ELSE Set(r, [req[r] EXCEPT !.pc = "done", !.err = "cancelled"])
  /\ UNCHANGED <<tokens, token_lock, image_used, video_used,
               sentinelVars, streamVars, restVars>>

InitHandler ==
  /\ \E ic \in ImageCaps, vc \in VideoCaps :
       tokens = [t \in TokenIds |->
                   [image_concurrency |-> ic, video_concurrency |-> vc]]
  /\ token_lock = [t \in TokenIds |-> FALSE]
  /\ image_used = [t \in TokenIds |-> 0]
  /\ video_used = [t \in TokenIds |-> 0]
  /\ req = [r \in Requests |-> NewRequest]

\* ------------------------------------------------------------ sentinel
\* An error raised to generate_video, by what its text holds: the status
\* code that _post_json_sync / _generate_sentinel_token / _fetch_oai_did put
\* into the message, and a word of the response body.
NoError == [src |-> "none", status |-> 0]
Statuses == {400, 403, 429, 500}
Bodies == {"", "sentinel", "invalid", "400"}

\* `"400" in error_str`, `"sentinel" in error_str.lower()`, ...: the message
\* is "HTTP Error: <status> <body>".
Contains(e, word) ==
  \/ e.body = word
  \/ word = "400" /\ e.status = 400
  \/ word = "403" /\ e.status = 403
  \/ word = "429" /\ e.status = 429

\* RetryMatches without its test for "invalid".
RetryMatches_NoInvalid(e) ==
  Contains(e, "400") \/ Contains(e, "sentinel")

\* The test that sends generate_video into its refresh-and-retry path.
RetryMatches(e) ==
  Contains(e, "400") \/ Contains(e, "sentinel") \/ Contains(e, "invalid")

\* The failures of /nf/create by what section 4.3 of the spec says of them:
\* "retryable" is a 400 or a body matching sentinel|invalid|400.
FailureClass(e) ==
  IF e.status = 400 \/ e.body \in {"sentinel", "invalid", "400"}
  THEN "retryable" ELSE "other"

\* _invalidate_sentinel_cache()
InvalidateSentinelCache(s) == [s EXCEPT !.cached = 0]

\* The User-Agent and the device id a sentinel token is minted under, by
\* acquisition mode: the lightweight SDK runs in a browser context with the
\* desktop Chrome User-Agent and is given the oai-did; the manual PoW uses
\* the Android User-Agent and its own req_id.
MintedUnder(mode) ==
  CASE mode = "lightweight" -> [ua |-> "desktop", device |-> "oai_did"]
    [] mode = "manual" -> [ua |-> "mobile", device |-> "req_id"]
    [] OTHER -> [ua |-> "none", device |-> "none"]

\* The headers of _nf_create_urllib: the user_agent it is given, and as
\* OAI-Device-Id the "id" of the sentinel token, which is the id the token
\* was minted with.
NfCreateHeaders(user_agent, minted) ==
  [ua |-> user_agent, device |-> minted.device, minted |-> minted]

NewCall ==
  [pc |-> "idle",
   phase |-> 0,          \* 1: first acquisition, 2: the refresh
   tok |-> 0,            \* the sentinel token in hand (0: None)
   tok1 |-> 0,           \* the token the first /nf/create carried
   ncreate |-> 0,        \* /nf/create requests issued
   first |-> "none",     \* the first /nf/create: "ok", or its failure as
                         \* FailureClass sorts it
   inv |-> FALSE,        \* the call emptied the cache before its retry
   refreshes |-> 0,      \* _get_cached_sentinel_token(force_refresh=True)
   blocked |-> FALSE,    \* a 403 or 429 answer was received
   afterBlocked |-> FALSE,\* ... and the call went on to another step
   user_agent |-> "desktop", \* generate_video's user_agent variable
   minted |-> MintedUnder("none"), \* how the token in hand was minted
   sends |-> {},         \* per /nf/create request: its headers and `minted`
   did403 |-> FALSE,     \* _fetch_oai_did returned an id after a 403 answer
   result |-> "none",    \* "ok": returned the task id, "raised"
   err |-> NoError]      \* the exception generate_video raised

SetCall(c, rec) == call' = [call EXCEPT ![c] = rec]

\* The sentinel token that call c mints in its first acquisition (phase 1)
\* or in its refresh (phase 2): every mint yields a token of its own.
Minted(c, phase) == 2 * (c - 1) + phase

\* A step the call takes after an upstream answer was received.
Proceed(rec) == [rec EXCEPT !.afterBlocked = @ \/ rec.blocked]

\* The call ends raising e; of the exception the caller is told where it
\* came from and its status.
Raise(rec, e) ==
  [rec EXCEPT !.pc = "done", !.result = "raised",
              !.err = [src |-> e.src, status |-> e.status]]

\* Where _get_cached_sentinel_token goes when it has to generate: into
\* _generate_sentinel_token_lightweight, which returns None at once without
\* Playwright (then generate_video falls back to the manual PoW).
Generate(rec) ==
  [rec EXCEPT !.pc = IF sentinel.playwright THEN "did" ELSE "manual"]

\* generate_video up to `_get_cached_sentinel_token(force_refresh=False)`:
\* the cached token is returned if there is one.
GetCached(c) ==
  /\ call[c].pc = "idle"
  /\ \A d \in Callers : d < c => call[d].pc # "idle"
  /\ IF sentinel.cached # 0
     THEN SetCall(c, [call[c] EXCEPT !.pc = "create", !.phase = 1,
                                     !.tok = sentinel.cached,
                                     !.minted = MintedUnder("lightweight")])
     ELSE SetCall(c, Generate([call[c] EXCEPT !.phase = 1]))
  /\ UNCHANGED <<sentinel, handlerVars, streamVars, restVars>>

\* _fetch_oai_did inside _generate_sentinel_token_lightweight. A 429 is
\* raised to generate_video, which re-raises it. A 403 is retried with other
\* fingerprints; the exception raised for the last 403 is caught by the
\* function's own `except Exception`, and a generated uuid is returned, as
\* it is after any other failure.
FetchOaiDid(c) ==
  /\ call[c].pc = "did"
  /\ LET rec == Proceed(call[c])
     IN \/ SetCall(c, [rec EXCEPT !.pc = "sdk"])
        \/ SetCall(c, [rec EXCEPT !.pc = "sdk", !.blocked = TRUE,
                                  !.did403 = TRUE])
        \/ SetCall(c, Raise([rec EXCEPT !.blocked = TRUE],
                            [src |-> "oai_did", status |-> 429, body |-> ""]))
  /\ UNCHANGED <<sentinel, handlerVars, streamVars, restVars>>

\* The SDK invocation of _generate_sentinel_token_lightweight and the end of
\* _get_cached_sentinel_token: a token is cached and returned, or None is
\* returned (then generate_video falls back to the manual PoW).
SdkInvoke(c) ==
  /\ call[c].pc = "sdk"
  /\ \/ /\ sentinel' = [sentinel EXCEPT !.cached = Minted(c, call[c].phase)]
        /\ SetCall(c, [call[c] EXCEPT !.pc = "create",
                                      !.tok = Minted(c, call[c].phase),
                                      !.minted = MintedUnder("lightweight")])
     \/ /\ UNCHANGED sentinel
        /\ SetCall(c, [call[c] EXCEPT !.pc = "manual"])
  /\ UNCHANGED <<handlerVars, streamVars, restVars>>

\* sentinel_token, user_agent = await self._generate_sentinel_token(token):
\* the manual PoW against /backend-api/sentinel/req. Its token is not cached;
\* a non-200 answer raises out of generate_video.
ManualSentinel(c) ==
  /\ call[c].pc = "manual"
  /\ LET rec == Proceed(call[c])
     IN \/ SetCall(c, [rec EXCEPT !.pc = "create",
                                  !.tok = Minted(c, rec.phase),
                                  !.minted = MintedUnder("manual"),
                                  !.user_agent = MintedUnder("manual").ua])
        \/ \E st \in {403, 429, 500} :
                SetCall(c, Raise([rec EXCEPT !.blocked = @ \/ st \in {403, 429}],
                                 [src |-> "sentinel_req", status |-> st,
                                  body |-> ""]))
  /\ UNCHANGED <<sentinel, handlerVars, streamVars, restVars>>

\* What generate_video does with the failure e of an /nf/create request.
\* The first failure that matches empties the cache and asks for a forced
\* refresh; any other failure, and every failure of the retry, is raised.
OnCreateFailure(rec, e) ==
  IF rec.phase = 1 /\ RetryMatches(e)
  THEN Generate([rec EXCEPT !.phase = 2, !.first = FailureClass(e),
                            !.refreshes = @ + 1,
                            !.inv = InvalidateSentinelCache(sentinel).cached = 0])
  ELSE Raise([rec EXCEPT !.first = IF rec.phase = 1 THEN FailureClass(e)
                                   ELSE @], e)

\* await self._nf_create_urllib(...): the first attempt or the retry.
NfCreate(c) ==
  /\ call[c].pc = "create"
  /\ LET rec == [Proceed(call[c]) EXCEPT
                   !.ncreate = @ + 1,
                   !.sends = @ \cup {NfCreateHeaders(call[c].user_agent,
                                                     call[c].minted)},
                   !.tok1 = IF call[c].phase = 1 THEN call[c].tok ELSE @]
     IN \/ /\ SetCall(c, [rec EXCEPT !.pc = "done", !.result = "ok",
                                        !.first = IF rec.phase = 1 THEN "ok"
                                                  ELSE @])
           /\ UNCHANGED sentinel
        \/ \E st \in Statuses, b \in Bodies :
             LET e == [src |-> "nf_create", status |-> st, body |-> b]
                 after == OnCreateFailure(
                            [rec EXCEPT !.blocked = @ \/ st \in {403, 429}], e)
             IN /\ SetCall(c, after)
                /\ sentinel' = IF after.phase > rec.phase
                               THEN InvalidateSentinelCache(sentinel)
                               ELSE sentinel
  /\ UNCHANGED <<handlerVars, streamVars, restVars>>

\* ------------------------------------------------------------ one stream
\* MODEL_CONFIG[model]["type"]; "invalid" is a name outside the table.
ModelKinds == {"image", "video", "invalid"}

\* The image, video, remix_target_id and prompt arguments of a call, by
\* whether each is given (not None, not empty).
Args == [image : BOOLEAN, video : BOOLEAN, remix : BOOLEAN, prompt : BOOLEAN]
NoArgs == [image |-> FALSE, video |-> FALSE, remix |-> FALSE, prompt |-> FALSE]

\* The row of watermark_free_config as the handler and the admin API see it.
WatermarkFreeConfigs ==
  [watermark_free_enabled : BOOLEAN, parse_method : {"third_party", "custom"},
   custom_configured : BOOLEAN, fallback_on_failure : BOOLEAN]
NoConfig ==
  [watermark_free_enabled |-> FALSE, parse_method |-> "third_party",
   custom_configured |-> FALSE, fallback_on_failure |-> TRUE]

\* _format_stream_chunk(..., finish_reason, is_first): the delta carries the
\* role only when is_first is set.
FormatStreamChunk(finish_reason, is_first) ==
  [kind |-> "chunk", role |-> is_first, finish |-> finish_reason]
\* yield "data: [DONE]\n\n"
DoneLine == [kind |-> "done", role |-> FALSE, finish |-> ""]
\* _format_non_stream_response(message, is_availability_check=True)
FormatNonStreamResponse ==
  [kind |-> "completion", role |-> TRUE, finish |-> "stop"]

\* The chunks the handlers build: reasoning text, the same with
\* is_first=True, and the final content with finish_reason="STOP".
Reasoning == FormatStreamChunk("", FALSE)
FirstChunk == FormatStreamChunk("", TRUE)
StopChunk == FormatStreamChunk("STOP", FALSE)

\* "**Generation Process Begins**" with the role on every call.
GenerationBeginsChunk_AlwaysFirst(is_first_chunk) ==
  FormatStreamChunk("", TRUE)

\* "**Generation Process Begins**": is_first=True only while is_first_chunk
\* is still set (no upload chunk came before).
GenerationBeginsChunk(is_first_chunk) ==
  FormatStreamChunk("", is_first_chunk)

\* The branch the arguments select, for a model of the table.
BranchOf(kind, a) ==
  IF kind = "video" /\ a.remix THEN "remix"
  ELSE IF kind = "video" /\ a.video
       THEN (IF a.prompt THEN "character_video" ELSE "character")
       ELSE kind

\* Dispatch with the remix test ahead of the stream test.
Dispatch_RemixFirst(kind, stream, a) ==
  IF kind = "invalid" THEN "invalid"
  ELSE IF kind = "video" /\ a.remix THEN "select"
  ELSE IF ~stream THEN "probe" ELSE "select"

\* Dispatch with the stream test ahead of the model test.
Dispatch_StreamFirst(kind, stream, a) ==
  IF ~stream THEN "probe"
  ELSE IF kind = "invalid" THEN "invalid" ELSE "select"

\* The order of the first tests of handle_generation: the model name, then
\* stream, then the arguments.
Dispatch(kind, stream, a) ==
  IF kind = "invalid" THEN "invalid"
  ELSE IF ~stream THEN "probe" ELSE "select"

\* No request log row (status_code 0).
NoLog == [status_code |-> 0, task_id |-> FALSE]

NewRun ==
  [pc |-> "idle",
   kind |-> "none",          \* the model's type
   stream |-> TRUE,
   args |-> NoArgs,
   branch |-> "none",
   tok |-> 0,                \* token_obj.id (0: none)
   is_first_chunk |-> TRUE,
   out |-> <<>>,             \* what the generator has yielded, in order
   atYield |-> FALSE,        \* the generator is suspended at a yield
   selects |-> 0,            \* select_token calls
   acquired |-> {},          \* of "lock", "image_slot", "video_slot"
   calls |-> {},             \* the SoraClient methods called
   recorded |-> {},          \* of "usage", "success", "error"
   attempt |-> 0,
   task |-> "none",          \* the stored Task.status
   drafts |-> 0,             \* get_video_drafts calls
   wm |-> NoConfig,          \* the watermark-free config the poll loop read
   post_id |-> FALSE,        \* post_video_for_watermark_free returned an id
   post_deleted |-> FALSE,   \* delete_post was called for it
   wmFailed |-> FALSE,       \* a step of the watermark-free sub-flow failed
   fellBack |-> FALSE,       \* the result is the draft's downloadable_url
   character_id |-> FALSE,   \* finalize_character returned an id
   char_deleted |-> FALSE,   \* delete_character was called for it
   atBound |-> FALSE,
   log |-> NoLog,            \* the request log row written for the run
   proxies |-> {},           \* the proxies the client's requests went through
   cache_enabled |-> FALSE,  \* config.cache_enabled as the poll loop read it
   downloads |-> <<>>,       \* per result url: how download_and_cache went
   urls |-> <<>>,            \* per result url: the url of the final content
   events |-> <<>>,          \* the image run's acquire and release calls
   err |-> "none"]

\* cancel_task of the admin API, for the task of the run.
NewAdmin == [pc |-> "idle", result |-> "none"]

\* RequestLog(token_id, operation, request_body, response_body, status_code,
\* duration) of _log_request: the row carries no task_id.
RequestLog(status_code) == [status_code |-> status_code, task_id |-> FALSE]

\* await self._log_request(...) of handle_generation.
LogRequest(rec, status_code) == [rec EXCEPT !.log = RequestLog(status_code)]

\* The row cancel_task looks for among the recent logs.
CancelMatches(log) == log.task_id /\ log.status_code = -1

\* db.update_request_log(id, response_body, status_code=499, duration).
UpdateRequestLog(log) == [log EXCEPT !.status_code = 499]

\* db.update_task(task_id, status, ...): the row's status is overwritten.
UpdateTask(rec, status) == [rec EXCEPT !.task = status]

\* yield: the chunks are appended and the generator is suspended.
Emit(rec, chunks) == [rec EXCEPT !.out = @ \o chunks, !.atYield = TRUE]
\* Token.proxy_url of the pool's tokens: token 1 has a proxy of its own.
TokenProxyUrl(t) == IF t = 1 THEN "token_proxy" ELSE ""

\* ProxyManager.get_proxy_url(token_id): the token's proxy_url when a token
\* id is given (0: None) and the token has one, else the global proxy.
GetProxyUrl(token_id) ==
  IF token_id # 0 /\ TokenProxyUrl(token_id) # "" THEN TokenProxyUrl(token_id)
  ELSE "global_proxy"

\* The token_id argument of the handlers' calls of the client: none of them
\* passes it, so the client's default (None) applies.
PassedTokenId(token_obj_id) == 0

\* An await of client methods follows the last yield; each request goes
\* through the proxy _make_request and generate_video resolve.
Await(rec, methods) ==
  [rec EXCEPT !.calls = @ \cup methods, !.atYield = FALSE,
              !.proxies = @ \cup {GetProxyUrl(PassedTokenId(rec.tok))}]

SetRun(rec) == run' = rec

\* The calls an image request acquires its resources with, in order:
\* token_lock.acquire_lock, then concurrency_manager.acquire_image.
AcquireOrder == <<"acquire_lock", "acquire_image">>

\* The calls an image request releases them with, in order, on the success
\* path, in the except clause and on both timeout paths of the poll loop:
\* token_lock.release_lock, then concurrency_manager.release_image.
ReleaseOrder == <<"release_lock", "release_image">>

\* The release calls of an image request, noted on the run.
Released(rec) ==
  IF IsImage(rec.branch) THEN [rec EXCEPT !.events = @ \o ReleaseOrder]
  ELSE rec

\* A url is served from the cache however the download went.
LocalUrl_Always(download) == "local"

\* local_url for one result url: f"{base_url}/tmp/{cached_filename}" after
\* download_and_cache returned, else the url upstream gave.
LocalUrl(download) == IF download = "ok" THEN "local" ELSE "upstream"

\* `if config.cache_enabled: try: download_and_cache(...)` for one result
\* url: no call ("none") with the cache disabled, else how the call went.
Download(cache_enabled, ok) ==
  IF cache_enabled THEN (IF ok THEN "ok" ELSE "failed") ELSE "none"

\* The cache step for the result urls, by how each download would go.
Cache(rec, cache_enabled, oks) ==
  LET d == [i \in 1..Len(oks) |-> Download(cache_enabled, oks[i])]
  IN [rec EXCEPT !.cache_enabled = cache_enabled, !.downloads = d,
                 !.urls = [i \in 1..Len(d) |-> LocalUrl(d[i])]]

\* The chunks of the image cache step: the announcement, one per failed
\* download, one per cached image when there are several, the closing one
\* when all were cached, or the one of the disabled cache.
ImageCacheChunks(cache_enabled, oks) ==
  LET n == Len(oks)
      count == IF ~cache_enabled THEN 2
               ELSE 1 + Cardinality({i \in 1..n : ~oks[i] \/ n > 1})
                      + (IF \A i \in 1..n : oks[i] THEN 1 ELSE 0)
  IN [i \in 1..count |-> Reasoning]

\* handle_generation up to its dispatch.
HandleGeneration ==
  /\ run.pc = "idle"
  /\ \E kind \in ModelKinds, stream \in BOOLEAN, a \in Args :
       LET rec == [run EXCEPT !.kind = kind, !.stream = stream, !.args = a]
           to == Dispatch(kind, stream, a)
       IN IF to = "invalid"
          THEN SetRun([rec EXCEPT !.pc = "done", !.err = "invalid_model"])
          ELSE SetRun([rec EXCEPT !.pc = to, !.branch = BranchOf(kind, a)])
  /\ UNCHANGED <<handlerVars, sentinelVars, restVars, admin>>

\* stream=False: check_token_availability and the one completion.
CheckTokenAvailability ==
  /\ run.pc = "probe"
  /\ SetRun([run EXCEPT !.pc = "done", !.selects = @ + 1,
                        !.out = @ \o <<FormatNonStreamResponse>>])
  /\ UNCHANGED <<handlerVars, sentinelVars, restVars, admin>>

\* select_token of handle_generation, _handle_remix and the two character
\* handlers.
SelectToken ==
  /\ run.pc = "select"
  /\ LET b == run.branch
         rec == [run EXCEPT !.selects = @ + 1]
         next == CASE b \in {"image", "video"} -> "acquire"
                   [] b = "remix" -> "submit"
                   [] OTHER -> "character"
     IN IF Eligible(IsImage(b)) = {}
        THEN SetRun([rec EXCEPT !.pc = "done", !.err = "no_eligible_token"])
        ELSE \E t \in Eligible(IsImage(b)) :
               SetRun([rec EXCEPT !.pc = next, !.tok = t])
  /\ UNCHANGED <<handlerVars, sentinelVars, restVars, admin>>

\* acquire_lock and acquire_image, or acquire_video, of handle_generation.
Acquire ==
  /\ run.pc = "acquire"
  /\ LET t == run.tok
         next == IF run.args.image THEN "upload" ELSE "submit"
         fail == [run EXCEPT !.pc = "done", !.err = "no_eligible_token"]
     IN IF IsImage(run.branch)
        THEN /\ UNCHANGED video_used
             /\ IF ~LockFree(t)
                THEN /\ UNCHANGED <<token_lock, image_used>>
                     /\ SetRun(fail)
                ELSE IF SlotFree(image_used, ImageCap(t), t)
                THEN /\ token_lock' = [token_lock EXCEPT ![t] = TRUE]
                     /\ image_used' = AcquireSlotOf(image_used, ImageCap(t), t)
                     /\ SetRun([run EXCEPT !.pc = next,
                                  !.acquired = {"lock", "image_slot"},
                                  !.events = AcquireOrder])
                ELSE /\ UNCHANGED <<token_lock, image_used>>
                     /\ SetRun(fail)
        ELSE /\ UNCHANGED <<token_lock, image_used>>
             /\ IF SlotFree(video_used, VideoCap(t), t)
                THEN /\ video_used' = AcquireSlotOf(video_used, VideoCap(t), t)
                     /\ SetRun([run EXCEPT !.pc = next,
                                           !.acquired = {"video_slot"}])
                ELSE /\ UNCHANGED video_used
                     /\ SetRun(fail)
  /\ UNCHANGED <<tokens, req, sentinelVars, restVars, admin>>

\* The image upload of handle_generation with its two chunks.
Upload ==
  /\ run.pc = "upload"
  /\ LET rec == Await(Emit([run EXCEPT !.is_first_chunk = FALSE],
                           <<FormatStreamChunk("", run.is_first_chunk)>>),
                      {"upload_image"})
     IN \/ SetRun([Emit(rec, <<Reasoning>>) EXCEPT !.pc = "submit"])
        \/ \E k \in UpstreamFailures :
             SetRun([rec EXCEPT !.pc = "except", !.err = k])
  /\ UNCHANGED <<handlerVars, sentinelVars, restVars, admin>>

\* The chunks ahead of the submission and the client method that submits.
SubmitChunks(b, is_first_chunk, storyboard) ==
  CASE b = "remix" -> <<FirstChunk, Reasoning>>
    [] b = "character_video" -> <<>>
    [] OTHER -> <<GenerationBeginsChunk(is_first_chunk)>>
                \o (IF storyboard THEN <<Reasoning>> ELSE <<>>)
SubmitMethod(b, storyboard) ==
  CASE b = "remix" -> "remix_video"
    [] b = "image" -> "generate_image"
    [] b = "video" /\ storyboard -> "generate_storyboard"
    [] OTHER -> "generate_video"

\* The submission, db.create_task(status "processing") and record_usage.
SubmitGeneration ==
  /\ run.pc = "submit"
  /\ \E storyboard \in (IF run.branch = "video" THEN BOOLEAN ELSE {FALSE}) :
       LET b == run.branch
           rec == Await(Emit([run EXCEPT !.is_first_chunk = FALSE],
                             SubmitChunks(b, run.is_first_chunk, storyboard)),
                        {SubmitMethod(b, storyboard)})
       IN \/ SetRun([rec EXCEPT !.pc = "poll", !.task = "processing",
                                !.recorded = @ \cup {"usage"},
                                !.attempt = 0])
          \/ \E k \in UpstreamFailures :
               SetRun([rec EXCEPT !.pc = "except", !.err = k])
  /\ UNCHANGED <<handlerVars, sentinelVars, restVars, admin>>

\* The client methods of the character steps, in the order they are called,
\* and the number of chunks yielded before each of them.
CharacterMethods ==
  <<"upload_character_video", "get_cameo_status", "download_character_image",
    "upload_character_image", "finalize_character">>
CharacterChunksBefore == <<2, 3, 5, 6, 7>>
CharacterChunks(n) == <<FirstChunk>> \o [i \in 1..(n - 1) |-> Reasoning]

\* The character steps of the two character handlers, from the first chunk
\* through finalize_character to the chunk that follows it.
CharacterCreate ==
  /\ run.pc = "character"
  /\ \/ \E k \in 1..Len(CharacterMethods) :
          \E e \in UpstreamFailures :
            SetRun([Await(Emit(run, CharacterChunks(CharacterChunksBefore[k])),
                          {CharacterMethods[i] : i \in 1..k})
                      EXCEPT !.pc = "except", !.err = e])
     \/ LET n == Len(CharacterMethods)
            rec == Await(Emit(run, CharacterChunks(CharacterChunksBefore[n])),
                         {CharacterMethods[i] : i \in 1..n})
        IN SetRun([Emit(rec, <<Reasoning>>) EXCEPT
                     !.character_id = TRUE,
                     !.pc = IF run.branch = "character" THEN "public"
                            ELSE "submit"])
  /\ UNCHANGED <<handlerVars, sentinelVars, restVars, admin>>

\* set_character_public and the end of _handle_character_creation_only.
SetCharacterPublic ==
  /\ run.pc = "public"
  /\ LET rec == Await(run, {"set_character_public"})
     IN \/ SetRun([Emit(rec, <<StopChunk, DoneLine>>) EXCEPT !.pc = "closing"])
        \/ \E e \in UpstreamFailures :
             SetRun([rec EXCEPT !.pc = "except", !.err = e])
  /\ UNCHANGED <<handlerVars, sentinelVars, restVars, admin>>

\* `except Exception` of the poll loop, for the run: swallowed unless the
\* attempt is the last.
Swallow(rec, kind) ==
  LET after == PollRaise(rec, kind, FALSE)
  IN IF after.pc = "except" THEN after ELSE [after EXCEPT !.pc = "poll"]

\* One pass of the video poll loop up to the answer of get_pending_tasks.
PollPending ==
  /\ run.pc = "poll"
  /\ IsVideo(run.branch)
  /\ run.attempt < MaxAttempts
  /\ LET rec == Await(run, {"get_pending_tasks"})
     IN \/ \* listed; the status chunk is due every 30 seconds
           \E chunk \in BOOLEAN :
             SetRun([(IF chunk THEN Emit(rec, <<Reasoning>>) ELSE rec)
                       EXCEPT !.attempt = @ + 1])
        \/ \* not listed
           SetRun([rec EXCEPT !.pc = "drafts"])
        \/ \E e \in UpstreamFailures : SetRun(Swallow(rec, e))
  /\ UNCHANGED <<handlerVars, sentinelVars, restVars, admin>>

\* get_video_drafts and the search for the task's draft; for a draft that
\* is found, the watermark-free switch and the normal mode's caching.
PollDrafts ==
  /\ run.pc = "drafts"
  /\ LET rec == [Await(run, {"get_video_drafts"}) EXCEPT !.drafts = @ + 1]
     IN \/ \* no draft of the task in the answer
           SetRun([rec EXCEPT !.pc = "poll", !.attempt = @ + 1])
        \/ \E e \in UpstreamFailures : SetRun(Swallow(rec, e))
        \/ \E cfg \in WatermarkFreeConfigs :
             LET got == [rec EXCEPT !.wm = cfg]
             IN IF cfg.watermark_free_enabled
                THEN \/ \* item.get("id") is empty
                        SetRun(Swallow(got, "upstream_error"))
                     \/ SetRun([Emit(got, <<Reasoning>>) EXCEPT
                                  !.pc = "publish"])
                ELSE \/ \* neither downloadable_url nor url: local_url unbound
                        SetRun(Swallow(got, "upstream_error"))
                     \/ \E cache_enabled, ok \in BOOLEAN :
                          SetRun([Emit(Cache(got, cache_enabled, <<ok>>),
                                       IF cache_enabled
                                       THEN <<Reasoning, Reasoning>>
                                       ELSE <<Reasoning>>)
                                    EXCEPT !.pc = "complete"])
  /\ UNCHANGED <<handlerVars, sentinelVars, restVars, admin>>

\* post_video_for_watermark_free and the resolution of the watermark-free
\* url; every failure lands in `except Exception as publish_error`.
Publish ==
  /\ run.pc = "publish"
  /\ LET rec == Await(run, {"post_video_for_watermark_free"})
         failed(x) == [x EXCEPT !.pc = "fallback", !.wmFailed = TRUE]
         posted == [rec EXCEPT !.post_id = TRUE]
     IN \/ \* the call raised or returned no post id
           SetRun(failed(rec))
        \/ IF run.wm.parse_method = "custom"
           THEN IF ~run.wm.custom_configured
                THEN SetRun(failed(posted))
                ELSE LET asked == Await(Emit(posted, <<Reasoning>>),
                                        {"get_watermark_free_url_custom"})
                     IN \/ SetRun(failed(asked))
                        \/ SetRun([Emit(asked, <<Reasoning>>) EXCEPT
                                     !.pc = "cache"])
           ELSE SetRun([Emit(posted, <<Reasoning>>) EXCEPT !.pc = "cache"])
  /\ UNCHANGED <<handlerVars, sentinelVars, restVars, admin>>

\* `if config.cache_enabled:` of the watermark-free flow.
CacheWatermarkFree ==
  /\ run.pc = "cache"
  /\ \E cache_enabled, ok \in BOOLEAN :
       LET rec == Emit(Cache(run, cache_enabled, <<ok>>), <<Reasoning>>)
       IN SetRun([rec EXCEPT !.pc = IF rec.downloads[1] = "ok"
                                    THEN "delete_post" ELSE "complete"])
  /\ UNCHANGED <<handlerVars, sentinelVars, restVars, admin>>

\* delete_post after the watermark-free video was cached; its failure is
\* reported in a chunk.
DeletePost ==
  /\ run.pc = "delete_post"
  /\ SetRun([Emit(Await(run, {"delete_post"}), <<Reasoning>>) EXCEPT
               !.pc = "complete", !.post_deleted = TRUE])
  /\ UNCHANGED <<handlerVars, sentinelVars, restVars, admin>>

\* Whether the publish_error clause falls back under the given setting.
FallsBack(fallback_on_failure) == TRUE

\* `except Exception as publish_error`: the warning chunk and the draft's
\* downloadable_url.
Fallback ==
  /\ run.pc = "fallback"
  /\ LET rec == Emit(run, <<Reasoning>>)
     IN IF FallsBack(run.wm.fallback_on_failure)
        THEN \/ \E cache_enabled, ok \in BOOLEAN :
                  SetRun([Cache(rec, cache_enabled, <<ok>>) EXCEPT
                            !.pc = "complete", !.fellBack = TRUE])
             \/ \* "Video URL not found"
                SetRun(Swallow(rec, "upstream_error"))
        ELSE SetRun(Swallow(rec, "upstream_error"))
  /\ UNCHANGED <<handlerVars, sentinelVars, restVars, admin>>

\* One pass of the image poll loop.
PollImage ==
  /\ run.pc = "poll"
  /\ IsImage(run.branch)
  /\ run.attempt < MaxAttempts
  /\ LET rec == Await(run, {"get_image_tasks"})
     IN \/ \* not listed, processing without news, succeeded without urls;
           \* the heartbeat chunk is due every 10 seconds
           \E chunk \in BOOLEAN :
             SetRun([(IF chunk THEN Emit(rec, <<Reasoning>>) ELSE rec)
                       EXCEPT !.attempt = @ + 1])
        \/ \* processing, progress up by more than 20
           SetRun([Emit(UpdateTask(rec, "processing"), <<Reasoning>>)
                     EXCEPT !.attempt = @ + 1])
        \/ \* succeeded with urls
           \E cache_enabled \in BOOLEAN, n \in 1..MaxUrls :
             \E oks \in [1..n -> BOOLEAN] :
               SetRun([Emit(Cache(rec, cache_enabled, oks),
                            ImageCacheChunks(cache_enabled, oks))
                         EXCEPT !.pc = "complete"])
        \/ \* failed
           SetRun(Swallow(UpdateTask(rec, "failed"), "upstream_error"))
        \/ \E e \in UpstreamFailures : SetRun(Swallow(rec, e))
  /\ UNCHANGED <<handlerVars, sentinelVars, restVars, admin>>

\* update_task(task_id, "completed", 100.0, ...), the final chunk and the
\* [DONE] line.
Complete ==
  /\ run.pc = "complete"
  /\ SetRun([Emit(UpdateTask(run, "completed"), <<StopChunk, DoneLine>>)
               EXCEPT !.pc = "returned"])
  /\ UNCHANGED <<handlerVars, sentinelVars, restVars, admin>>

\* The releases a plain run of handle_generation makes.
RunRelease ==
  LET t == run.tok
  IN CASE run.branch = "image" ->
            /\ token_lock' = ReleaseLock(token_lock, t)
            /\ image_used' = ReleaseSlotOf(image_used, ImageCap(t), t)
            /\ UNCHANGED video_used
       [] run.branch = "video" ->
            /\ video_used' = ReleaseSlotOf(video_used, VideoCap(t), t)
            /\ UNCHANGED <<token_lock, image_used>>
       [] OTHER -> UNCHANGED <<token_lock, image_used, video_used>>

\* The releases of _poll_task_result's timeout paths, which go by is_video
\* and token_id alone.
PollTimeoutRelease ==
  LET t == run.tok
  IN IF IsVideo(run.branch)
     THEN /\ video_used' = ReleaseSlotOf(video_used, VideoCap(t), t)
          /\ UNCHANGED <<token_lock, image_used>>
     ELSE /\ token_lock' = ReleaseLock(token_lock, t)
          /\ image_used' = ReleaseSlotOf(image_used, ImageCap(t), t)
          /\ UNCHANGED video_used

\* Both timeout paths of _poll_task_result: the releases, update_task(
\* "failed") and the upstream-timeout error.
PollTimeout ==
  /\ run.pc = "poll"
  /\ run.attempt >= 1
  /\ PollTimeoutRelease
  /\ SetRun([UpdateTask(Released(run), "failed") EXCEPT
               !.pc = "except", !.err = "upstream_timeout", !.atBound = TRUE,
               !.atYield = FALSE])
  /\ UNCHANGED <<tokens, req, sentinelVars, restVars, admin>>

\* Whether the handler of the branch writes a request log row: only
\* handle_generation itself calls _log_request.
LogsRequest(b) == b \in {"image", "video"}

\* After _poll_task_result returned: record_success, the releases and the
\* request log row with status 200.
AfterPoll ==
  /\ run.pc = "returned"
  /\ RunRelease
  /\ LET rec == [Released(run) EXCEPT !.recorded = @ \cup {"success"},
                                      !.atYield = FALSE, !.pc = "closing"]
     IN SetRun(IF LogsRequest(run.branch) THEN LogRequest(rec, 200) ELSE rec)
  /\ UNCHANGED <<tokens, req, sentinelVars, restVars, admin>>

\* The `except Exception` clause of the run's handler; handle_generation's
\* ends with the request log row with status 500.
Except ==
  /\ run.pc = "except"
  /\ RunRelease
  /\ LET rec == [Released(run) EXCEPT
                   !.recorded = IF RecordsError(run.branch)
                                THEN @ \cup {"error"} ELSE @,
                   !.atYield = FALSE,
                   !.pc = "closing"]
     IN SetRun(IF LogsRequest(run.branch) THEN LogRequest(rec, 500) ELSE rec)
  /\ UNCHANGED <<tokens, req, sentinelVars, restVars, admin>>

\* The end of the handler: the `finally` of the character+video handler
\* yields its chunk when a character id is set; the others just end.
Finally ==
  /\ run.pc = "closing"
  /\ IF run.branch = "character_video" /\ run.character_id
     THEN SetRun([Emit(run, <<Reasoning>>) EXCEPT !.pc = "cleanup"])
     ELSE SetRun([run EXCEPT !.pc = "done", !.atYield = FALSE])
  /\ UNCHANGED <<handlerVars, sentinelVars, restVars, admin>>

\* await self.sora_client.delete_character(...) after the chunk of the
\* `finally`; its failure is logged.
DeleteCharacter ==
  /\ run.pc = "cleanup"
  /\ SetRun([Await(run, {"delete_character"}) EXCEPT
               !.pc = "done", !.char_deleted = TRUE])
  /\ UNCHANGED <<handlerVars, sentinelVars, restVars, admin>>

\* The caller stops reading: the generator is closed while suspended at a
\* yield. GeneratorExit passes the `except Exception` clauses, and the
\* `finally` of the character+video handler cannot get past its own yield.
Close ==
  /\ run.atYield
  /\ run.pc # "done"
  /\ SetRun([run EXCEPT !.pc = "done", !.err = "cancelled",
                        !.atYield = FALSE])
  /\ UNCHANGED <<handlerVars, sentinelVars, restVars, admin>>

\* Every status passes the test.
Cancellable_Any(status) == TRUE

\* The negation of `task.status not in ["processing"]`.
Cancellable(status) == status \in {"processing"}

\* cancel_task up to its test of the status it read.
CancelTaskRead ==
  /\ admin.pc = "idle"
  /\ admin' = CASE run.task = "none" -> [pc |-> "done", result |-> "404"]
                [] ~Cancellable(run.task) ->
                     [pc |-> "done", result |-> "refused"]
                [] OTHER -> [pc |-> "write", result |-> "none"]
  /\ UNCHANGED <<handlerVars, sentinelVars, restVars, run>>

\* await db.update_task(task_id, "failed", 0, ...) of cancel_task.
CancelTaskWrite ==
  /\ admin.pc = "write"
  /\ SetRun(UpdateTask(run, "failed"))
  /\ admin' = [pc |-> "log", result |-> "none"]
  /\ UNCHANGED <<handlerVars, sentinelVars, restVars>>

\* get_recent_logs and the search for the task's open row, which is closed
\* with 499 when it is found; cancel_task then reports success.
CancelTaskCloseLog ==
  /\ admin.pc = "log"
  /\ SetRun(IF CancelMatches(run.log)
            THEN [run EXCEPT !.log = UpdateRequestLog(run.log)] ELSE run)
  /\ admin' = [pc |-> "done", result |-> "cancelled"]
  /\ UNCHANGED <<handlerVars, sentinelVars, restVars>>


\* ------------------------------------------------------------ admin sessions
\* Logins that a run of the admin API issues tokens for.
MaxLogins == 3
\* f"admin-{secrets.token_urlsafe(32)}": every login mints a token of its
\* own, here the number of the login.
AdminTokens == 1..MaxLogins
Passwords == {"old", "new"}

NewAuth ==
  [active_admin_tokens |-> {},
   issued |-> 0,             \* tokens minted by successful logins
   removed |-> {},           \* tokens logout or a password change removed
   admin_password |-> "old", \* config.admin_password
   changing |-> "none",      \* update_admin_password between its test of
                             \* the old password and its last statement:
                             \* the new password
   accepted |-> {},          \* tokens verify_admin_token has accepted
   rejected |-> {},          \* tokens it has answered 401 to
   acceptedStale |-> FALSE]  \* it accepted a token that was never issued
                             \* or had been removed

\* verify_admin_token: `token not in active_admin_tokens` raises 401.
VerifyAdminToken(active, t) == t \in active

\* AuthManager.verify_admin(username, password) against the configuration.
VerifyAdmin(password) == password = auth.admin_password

\* active_admin_tokens.discard(token)
Discard(active, t) == active \ {t}

\* A password change that leaves the issued tokens alone.
Clear_Keep(active) == active

\* active_admin_tokens.clear()
Clear(active) == {}

\* What Depends(verify_admin_token) leaves in the record of the calls.
Verified(a, t) ==
  IF VerifyAdminToken(a.active_admin_tokens, t)
  THEN [a EXCEPT !.accepted = @ \cup {t},
                 !.acceptedStale = @ \/ t \in a.removed \/ t > a.issued]
  ELSE [a EXCEPT !.rejected = @ \cup {t}]

\* POST /api/login
Login ==
  /\ auth.issued < MaxLogins
  /\ \E password \in Passwords :
       IF VerifyAdmin(password)
       THEN auth' = [auth EXCEPT
                       !.issued = @ + 1,
                       !.active_admin_tokens = @ \cup {auth.issued + 1}]
       ELSE UNCHANGED auth
  /\ UNCHANGED <<handlerVars, sentinelVars, streamVars, poll, pow, text,
               opsVars>>

\* Any admin endpoint behind Depends(verify_admin_token).
AdminCall ==
  /\ \E t \in AdminTokens : auth' = Verified(auth, t)
  /\ UNCHANGED <<handlerVars, sentinelVars, streamVars, poll, pow, text,
               opsVars>>

\* POST /api/logout
Logout ==
  /\ \E t \in AdminTokens :
       LET a == Verified(auth, t)
       IN IF VerifyAdminToken(auth.active_admin_tokens, t)
          THEN auth' = [a EXCEPT
                          !.active_admin_tokens = Discard(@, t),
                          !.removed = @ \cup {t}]
          ELSE auth' = a
  /\ UNCHANGED <<handlerVars, sentinelVars, streamVars, poll, pow, text,
               opsVars>>

\* POST /api/admin/password up to its first await: the token and the old
\* password are verified.
UpdateAdminPasswordBegin ==
  /\ auth.changing = "none"
  /\ \E t \in AdminTokens, old_password \in Passwords,
        new_password \in Passwords :
       LET a == Verified(auth, t)
       IN IF VerifyAdminToken(auth.active_admin_tokens, t)
             /\ VerifyAdmin(old_password)
          THEN auth' = [a EXCEPT !.changing = new_password]
          ELSE auth' = a
  /\ UNCHANGED <<handlerVars, sentinelVars, streamVars, poll, pow, text,
               opsVars>>

\* ... after db.update_admin_config: the configuration is updated and every
\* issued token is removed.
UpdateAdminPasswordCommit ==
  /\ auth.changing # "none"
  /\ auth' = [auth EXCEPT
                !.admin_password = auth.changing,
                !.changing = "none",
                !.removed = @ \cup auth.active_admin_tokens,
                !.active_admin_tokens = Clear(@)]
  /\ UNCHANGED <<handlerVars, sentinelVars, streamVars, poll, pow, text,
               opsVars>>

\* ------------------------------------------------------------ poll clock
\* config.video_timeout or config.image_timeout and config.poll_interval, in
\* ticks of the clock, and the most ticks one poll request takes to answer
\* or to fail.
Timeouts == {4, 5, 6}
PollIntervals == {2, 3}
MaxLatency == 2

\* One call of _poll_task_result against the clock.
NewPoll ==
  [pc |-> "idle",
   timeout |-> 0,
   poll_interval |-> 0,
   max_attempts |-> 0,
   attempt |-> 0,            \* the loop variable
   elapsed |-> 0,            \* time.time() - start_time
   polls |-> 0,              \* poll requests made
   outcome |-> "none"]

\* max_attempts = int(timeout / poll_interval)
MaxAttemptsOf(timeout, poll_interval) == timeout \div poll_interval

\* `if elapsed_time > timeout:` at the top of a pass.
TimedOut(elapsed, timeout) == elapsed > timeout

\* The head of _poll_task_result: the configuration and start_time.
PollLoopStart ==
  /\ poll.pc = "idle"
  /\ \E timeout \in Timeouts, poll_interval \in PollIntervals :
       poll' = [poll EXCEPT !.pc = "top", !.timeout = timeout,
                            !.poll_interval = poll_interval,
                            !.max_attempts =
                               MaxAttemptsOf(timeout, poll_interval)]
  /\ UNCHANGED <<handlerVars, sentinelVars, streamVars, auth, pow, text,
               opsVars>>

\* `for attempt in range(max_attempts)` and the elapsed-time test of a pass;
\* past the range or past the timeout the call ends with the timeout error.
PollLoopCheck ==
  /\ poll.pc = "top"
  /\ poll' = IF poll.attempt >= poll.max_attempts
             THEN [poll EXCEPT !.pc = "ended", !.outcome = "max_attempts"]
             ELSE IF TimedOut(poll.elapsed, poll.timeout)
             THEN [poll EXCEPT !.pc = "ended", !.outcome = "timeout"]
             ELSE [poll EXCEPT !.pc = "sleep"]
  /\ UNCHANGED <<handlerVars, sentinelVars, streamVars, auth, pow, text,
               opsVars>>

\* await asyncio.sleep(poll_interval)
PollLoopSleep ==
  /\ poll.pc = "sleep"
  /\ poll' = [poll EXCEPT !.pc = "request", !.elapsed = @ + poll.poll_interval]
  /\ UNCHANGED <<handlerVars, sentinelVars, streamVars, auth, pow, text,
               opsVars>>

\* The poll request of a pass and what the pass makes of its answer: the
\* task is still running, the request failed (swallowed unless the pass is
\* the last), or the task is finished.
PollLoopRequest ==
  /\ poll.pc = "request"
  /\ \E latency \in 0..MaxLatency :
       LET rec == [poll EXCEPT !.elapsed = @ + latency, !.polls = @ + 1]
           next == [rec EXCEPT !.pc = "top", !.attempt = @ + 1]
       IN \/ poll' = next
          \/ poll' = IF poll.attempt >= poll.max_attempts - 1
                     THEN [rec EXCEPT !.pc = "ended", !.outcome = "raised"]
                     ELSE next
          \/ poll' = [rec EXCEPT !.pc = "ended", !.outcome = "completed"]
  /\ UNCHANGED <<handlerVars, sentinelVars, streamVars, auth, pow, text,
               opsVars>>

\* ------------------------------------------------------------ proof of work
\* POW_MAX_ITERATION (500000 in the source), scaled down.
POW_MAX_ITERATION == 2

\* The digits of a difficulty string, scaled from sixteen to two, so that a
\* byte, the value of two digits, is one of 0..3; a digest has two bytes
\* (sixty-four in the source).
HexDigits == {0, 1}
Digests == [1..2 -> 0..3]
Difficulties == UNION {[1..n -> HexDigits] : n \in 0..4}
Seeds == {"seed1", "seed2"}
\* config_list[9], which _get_pow_config draws from 2..10.
InitialJs == {2, 10}

\* One call of _solve_pow.
NewPow ==
  [pc |-> "idle",
   seed |-> "",
   difficulty |-> <<>>,      \* the digits of the difficulty string
   digest |-> <<>>,          \* sha3_512(seed + output) for the output of each i
   target_diff |-> <<>>,
   i |-> 0,
   initial_j |-> 0,          \* config_list[9]
   final_json |-> <<>>,      \* slots 3 and 9 of the last text serialized
   output |-> [kind |-> "none"],
   success |-> FALSE]

\* bytes.fromhex: the bytes of the digit pairs of a string of even length.
FromHex(digits) ==
  [k \in 1..(Len(digits) \div 2) |->
     2 * digits[2 * k - 1] + digits[2 * k]]

\* a <= b for bytes objects: lexicographic, a proper prefix being smaller.
RECURSIVE LexLeq(_, _)
LexLeq(a, b) ==
  IF a = <<>> THEN TRUE
  ELSE IF b = <<>> THEN FALSE
  ELSE IF Head(a) # Head(b) THEN Head(a) < Head(b)
  ELSE LexLeq(Tail(a), Tail(b))

\* hash_value[:diff_len]
Slice(hash_value, diff_len) ==
  SubSeq(hash_value, 1, IF diff_len < Len(hash_value) THEN diff_len
                        ELSE Len(hash_value))

\* The comparison with its sides exchanged.
Qualifies_Reversed(hash_value, diff_len, target_diff) ==
  LexLeq(target_diff, Slice(hash_value, diff_len))

\* hash_value[:diff_len] <= target_diff
Qualifies(hash_value, diff_len, target_diff) ==
  LexLeq(Slice(hash_value, diff_len), target_diff)

\* b64_encoded.decode() for iteration i: the encoding of a json text that
\* holds i, so different for every i.
Answer(i) == [kind |-> "answer", i |-> i]

\* "wQ8Lk5FbGpA2NcR9dShT6gYjU7VxZ4D" + base64.b64encode(f'"{seed}"')
ErrorToken(seed) == [kind |-> "error", seed |-> seed]

\* dynamic_j of iteration i.
DynamicJ(initial_j, i) == initial_j + (i + 29) \div 30

\* final_json of iteration i: the static parts with dynamic_i in slot 3 and
\* dynamic_j in slot 9.
FinalJson(initial_j, i) == [i |-> i, slot3 |-> i, slot9 |-> DynamicJ(initial_j, i)]

\* _solve_pow up to its loop, with the digests the outputs will have;
\* bytes.fromhex raises ValueError for a string of odd length.
SolvePowStart ==
  /\ pow.pc = "idle"
  /\ \E seed \in Seeds, difficulty \in Difficulties,
        digest \in [0..(POW_MAX_ITERATION - 1) -> Digests],
        initial_j \in InitialJs :
       pow' = IF Len(difficulty) % 2 = 1
              THEN [pow EXCEPT !.pc = "raised", !.seed = seed,
                               !.difficulty = difficulty]
              ELSE [pow EXCEPT !.pc = "loop", !.seed = seed,
                               !.difficulty = difficulty, !.digest = digest,
                               !.target_diff = FromHex(difficulty),
                               !.initial_j = initial_j]
  /\ UNCHANGED <<handlerVars, sentinelVars, streamVars, auth, poll, text,
               opsVars>>

\* One pass of `for i in range(POW_MAX_ITERATION)`.
SolvePowIterate ==
  /\ pow.pc = "loop"
  /\ pow.i < POW_MAX_ITERATION
  /\ pow' = IF Qualifies(pow.digest[pow.i], Len(pow.difficulty) \div 2,
                         pow.target_diff)
            THEN [pow EXCEPT !.pc = "returned", !.output = Answer(pow.i),
                             !.success = TRUE,
                             !.final_json = FinalJson(pow.initial_j, pow.i)]
            ELSE [pow EXCEPT !.i = @ + 1,
                             !.final_json = FinalJson(pow.initial_j, pow.i)]
  /\ UNCHANGED <<handlerVars, sentinelVars, streamVars, auth, poll, text,
               opsVars>>

\* The end of the loop: the error token and False.
SolvePowGiveUp ==
  /\ pow.pc = "loop"
  /\ pow.i >= POW_MAX_ITERATION
  /\ pow' = [pow EXCEPT !.pc = "returned", !.output = ErrorToken(pow.seed),
                        !.success = FALSE]
  /\ UNCHANGED <<handlerVars, sentinelVars, streamVars, auth, poll, text,
               opsVars>>

\* ------------------------------------------------------------ prompts
\* The length of a share id's hex part (32 in the source), scaled down, and
\* the longest prompts given to the cleaner and to the storyboard functions.
HexLen == 1
MaxCleanLen == 6
MaxStoryLen == 5

\* The characters of the cleaner's prompts: "U" is the text
\* "https://sora.chatgpt.com/p/", "a" a hex digit.
CleanPrompts ==
  UNION {[1..n -> {"U", "s", "_", "a", " "}] : n \in 0..MaxCleanLen}

\* The pieces of the storyboard prompts: two duration tags, a "[" that
\* starts no tag, a letter and a blank.
DurationTags == {"[5s]", "[10s]"}
StoryPrompts ==
  UNION {[1..n -> DurationTags \cup {"[", "x", " "}] : n \in 0..MaxStoryLen}

\* One prompt on its way through the cleaner or to the video endpoints.
NewText ==
  [pc |-> "idle",
   prompt |-> <<>>,
   cleaned |-> <<>>,         \* the cleaner's result
   recleaned |-> <<>>,       \* the cleaner's result for `cleaned`
   endpoint |-> "none",      \* the client method the prompt was sent with
   sent |-> [raw |-> TRUE, prompt |-> <<>>, shots |-> <<>>,
             instructions |-> <<>>]]

\* r's_[a-f0-9]{32}' and r'https://sora\.chatgpt\.com/p/s_[a-f0-9]{32}', as
\* the set of characters each position admits.
ShortIdPattern == <<{"s"}, {"_"}>> \o [k \in 1..HexLen |-> {"a"}]
UrlPattern == <<{"U"}>> \o ShortIdPattern

\* The pattern matches at the start of s.
MatchesAt(s, pattern) ==
  /\ Len(s) >= Len(pattern)
  /\ \A k \in 1..Len(pattern) : s[k] \in pattern[k]

\* re.sub(pattern, '', s): the leftmost matches, which do not overlap, are
\* taken out in one pass.
RECURSIVE Sub(_, _)
Sub(s, pattern) ==
  IF s = <<>> THEN <<>>
  ELSE IF MatchesAt(s, pattern)
       THEN Sub(SubSeq(s, Len(pattern) + 1, Len(s)), pattern)
       ELSE <<Head(s)>> \o Sub(Tail(s), pattern)

\* s.lstrip() and s.strip() for blanks.
RECURSIVE LStrip(_)
LStrip(s) ==
  IF s # <<>> /\ Head(s) = " " THEN LStrip(Tail(s)) ELSE s
RECURSIVE Strip(_)
Strip(s) ==
  LET l == LStrip(s)
  IN IF l # <<>> /\ l[Len(l)] = " " THEN Strip(SubSeq(l, 1, Len(l) - 1))
     ELSE l

\* ' '.join(s.split()): the words with one blank between them.
RECURSIVE JoinSplit(_)
JoinSplit(s) ==
  LET l == LStrip(s)
  IN IF l = <<>> THEN <<>>
     ELSE IF Head(l) # " " /\ Len(l) > 1 /\ l[2] = " "
          THEN (IF LStrip(Tail(l)) = <<>> THEN <<Head(l)>>
                ELSE <<Head(l), " ">> \o JoinSplit(Tail(l)))
          ELSE <<Head(l)>> \o JoinSplit(Tail(l))

\* _clean_remix_link_from_prompt
CleanRemixLinkFromPrompt(prompt) ==
  IF prompt = <<>> THEN prompt
  ELSE JoinSplit(Sub(Sub(prompt, UrlPattern), ShortIdPattern))

\* The number of a duration tag: the group (\d+(?:\.\d+)?).
Duration(tag) == IF tag = "[5s]" THEN "5" ELSE "10"

\* The piece starts with "[".
IsBracket(tok) == tok \in DurationTags \cup {"["}

\* is_storyboard_prompt: re.findall finds a duration tag.
IsStoryboardPrompt(prompt) ==
  \E k \in 1..Len(prompt) : prompt[k] \in DurationTags

\* The longest start of s that [^\[]+ can match.
RECURSIVE NoBracketRun(_)
NoBracketRun(s) ==
  IF s = <<>> \/ IsBracket(Head(s)) THEN <<>>
  ELSE <<Head(s)>> \o NoBracketRun(Tail(s))

\* The second group of a match whose tag is followed by `follow`: \s* takes
\* the leading blanks but gives one back when nothing else is left.
SceneGroup(follow) ==
  IF LStrip(follow) = <<>> THEN <<follow[Len(follow)]>> ELSE LStrip(follow)

\* re.findall(r'\[(\d+(?:\.\d+)?)s\]\s*([^\[]+)', s): a tag matches only
\* with at least one character other than "[" after it, and the search
\* goes on behind the match.
RECURSIVE FindAll(_)
FindAll(s) ==
  IF s = <<>> THEN <<>>
  ELSE LET follow == NoBracketRun(Tail(s))
       IN IF Head(s) \in DurationTags /\ follow # <<>>
          THEN <<[duration |-> Duration(Head(s)),
                  scene |-> SceneGroup(follow)]>>
               \o FindAll(SubSeq(s, Len(follow) + 2, Len(s)))
          ELSE FindAll(Tail(s))

\* prompt.find('['): the number of pieces before the first one that starts
\* with "[", or -1.
FindBracket(prompt) ==
  IF \E k \in 1..Len(prompt) : IsBracket(prompt[k])
  THEN (CHOOSE k \in 1..Len(prompt) :
          /\ IsBracket(prompt[k])
          /\ \A j \in 1..(k - 1) : ~IsBracket(prompt[j])) - 1
  ELSE -1

\* format_storyboard_prompt: the prompt itself without a match, else the
\* Shot blocks (idx, duration, the stripped scene) and the instructions.
FormatStoryboardPrompt(prompt) ==
  LET matches == FindAll(prompt)
      first_bracket_pos == FindBracket(prompt)
  IN IF matches = <<>>
     THEN [raw |-> TRUE, prompt |-> prompt, shots |-> <<>>,
           instructions |-> <<>>]
     ELSE [raw |-> FALSE, prompt |-> <<>>,
           shots |-> [idx \in 1..Len(matches) |->
                        [idx |-> idx, duration |-> matches[idx].duration,
                         scene |-> Strip(matches[idx].scene)]],
           instructions |-> IF first_bracket_pos > 0
                            THEN Strip(SubSeq(prompt, 1, first_bracket_pos))
                            ELSE <<>>]

\* _handle_remix cleans the prompt it was given.
CleanRemixLink ==
  /\ text.pc = "idle"
  /\ \E prompt \in CleanPrompts :
       text' = [text EXCEPT !.pc = "cleaned", !.prompt = prompt,
                            !.cleaned = CleanRemixLinkFromPrompt(prompt)]
  /\ UNCHANGED <<handlerVars, sentinelVars, streamVars, auth, poll, pow,
               opsVars>>

\* The cleaner applied to its own result.
CleanAgain ==
  /\ text.pc = "cleaned"
  /\ text' = [text EXCEPT !.pc = "recleaned",
                          !.recleaned = CleanRemixLinkFromPrompt(text.cleaned)]
  /\ UNCHANGED <<handlerVars, sentinelVars, streamVars, auth, poll, pow,
               opsVars>>

\* The video branch of handle_generation submits the prompt: formatted and
\* with generate_storyboard when is_storyboard_prompt accepts it, else as
\* it is with generate_video.
SubmitVideoPrompt ==
  /\ text.pc = "idle"
  /\ \E prompt \in StoryPrompts :
       text' = IF IsStoryboardPrompt(prompt)
               THEN [text EXCEPT !.pc = "sent", !.prompt = prompt,
                                 !.endpoint = "generate_storyboard",
                                 !.sent = FormatStoryboardPrompt(prompt)]
               ELSE [text EXCEPT !.pc = "sent", !.prompt = prompt,
                                 !.endpoint = "generate_video",
                                 !.sent = [raw |-> TRUE, prompt |-> prompt,
                                           shots |-> <<>>,
                                           instructions |-> <<>>]]
  /\ UNCHANGED <<handlerVars, sentinelVars, streamVars, auth, poll, pow,
               opsVars>>

\* ------------------------------------------------------------ admin config
\* The caps a request may carry (0 stands for None, a cap the request
\* leaves out; -1, which reset_token may be given, is no limit), a token without a row, and the image timeouts a
\* request may ask for (0: None).
Caps == {1, 2}
NoRow == [image_concurrency |-> 0, video_concurrency |-> 0]
ImageTimeouts == {0, 30, 60, 120}

\* The admin API's view of the tokens and of the configuration: the Token
\* rows' caps, the concurrency manager's limits, config.image_timeout, the
\* token lock's timeout, config.at_auto_refresh_enabled and the scheduler.
NewConf ==
  [pc |-> "idle",
   rows |-> [t \in TokenIds |-> NoRow],
   limits |-> [t \in TokenIds |-> NoRow],
   image_timeout |-> 60,
   lock_timeout |-> 60,
   at_auto_refresh_enabled |-> FALSE,
   running |-> FALSE,        \* scheduler.running
   job |-> FALSE]            \* the job 'batch_refresh_tokens' is scheduled

\* token_manager.add_token / update_token: a cap that is None is left as
\* the row has it.
WriteRow(row, image_concurrency, video_concurrency) ==
  [image_concurrency |-> IF image_concurrency = 0 THEN row.image_concurrency
                         ELSE image_concurrency,
   video_concurrency |-> IF video_concurrency = 0 THEN row.video_concurrency
                         ELSE video_concurrency]

\* concurrency_manager.reset_token(token_id, image_concurrency,
\* video_concurrency): the limits become the values given.
ResetToken(limits, t, image_concurrency, video_concurrency) ==
  [limits EXCEPT ![t] = [image_concurrency |-> image_concurrency,
                         video_concurrency |-> video_concurrency]]

\* The argument update_token gives reset_token for a cap of the request.
ResetArgument(cap) == IF cap # 0 THEN cap ELSE -1

\* Start-up: the first token has a row, the limits are built from the rows,
\* the lock timeout is the image timeout, and the refresh job is scheduled
\* when the switch is on.
Startup ==
  /\ conf.pc = "idle"
  /\ \E enabled, running \in BOOLEAN :
       LET row == [image_concurrency |-> 1, video_concurrency |-> 1]
       IN conf' = [conf EXCEPT !.pc = "ready",
                               !.rows[1] = row, !.limits[1] = row,
                               !.at_auto_refresh_enabled = enabled,
                               !.running = enabled \/ running,
                               !.job = enabled]
  /\ UNCHANGED <<handlerVars, sentinelVars, streamVars, auth, poll, pow, text,
                 cameo, sync>>

\* POST /api/tokens for a token that has no row yet.
AddToken ==
  /\ conf.pc = "ready"
  /\ \E t \in TokenIds, ic \in Caps, vc \in Caps :
       /\ conf.rows[t] = NoRow
       /\ conf' = [conf EXCEPT !.rows[t] = WriteRow(@, ic, vc),
                               !.limits = ResetToken(@, t, ic, vc)]
  /\ UNCHANGED <<handlerVars, sentinelVars, streamVars, auth, poll, pow, text,
                 cameo, sync>>

\* PUT /api/tokens/{token_id}: the row, and reset_token when the request
\* has a cap.
UpdateToken ==
  /\ conf.pc = "ready"
  /\ \E t \in TokenIds, ic \in Caps \cup {0}, vc \in Caps \cup {0} :
       /\ conf.rows[t] # NoRow
       /\ conf' = [conf EXCEPT
                     !.rows[t] = WriteRow(@, ic, vc),
                     !.limits = IF ic # 0 \/ vc # 0
                                THEN ResetToken(@, t, ResetArgument(ic),
                                                ResetArgument(vc))
                                ELSE @]
  /\ UNCHANGED <<handlerVars, sentinelVars, streamVars, auth, poll, pow, text,
                 cameo, sync>>

\* POST /api/tokens/import for one item: the row is updated or added, and
\* reset_token follows either.
ImportTokens ==
  /\ conf.pc = "ready"
  /\ \E t \in TokenIds, ic \in Caps, vc \in Caps :
       conf' = [conf EXCEPT !.rows[t] = WriteRow(@, ic, vc),
                            !.limits = ResetToken(@, t, ic, vc)]
  /\ UNCHANGED <<handlerVars, sentinelVars, streamVars, auth, poll, pow, text,
                 cameo, sync>>

\* POST /api/tokens/import/pure-rt for one refresh token: the row is updated
\* or added; reset_token is not called.
ImportPureRt ==
  /\ conf.pc = "ready"
  /\ \E t \in TokenIds, ic \in Caps, vc \in Caps :
       conf' = [conf EXCEPT !.rows[t] = WriteRow(@, ic, vc)]
  /\ UNCHANGED <<handlerVars, sentinelVars, streamVars, auth, poll, pow, text,
                 cameo, sync>>

\* The validation of update_generation_timeout for the image timeout.
ValidImageTimeout(image_timeout) == image_timeout >= 60 /\ image_timeout <= 3600

\* POST /api/generation/timeout: validation, config.set_image_timeout, the
\* database write, which may fail, and then set_lock_timeout.
UpdateGenerationTimeout ==
  /\ conf.pc = "ready"
  /\ \E image_timeout \in ImageTimeouts, written \in BOOLEAN :
       conf' = IF image_timeout = 0 \/ ~ValidImageTimeout(image_timeout)
               THEN conf
               ELSE [conf EXCEPT !.image_timeout = image_timeout,
                                 !.lock_timeout = IF written THEN image_timeout
                                                  ELSE @]
  /\ UNCHANGED <<handlerVars, sentinelVars, streamVars, auth, poll, pow, text,
                 cameo, sync>>

\* The scheduler after the endpoint's `if scheduler:` block: enabling adds
\* the job and starts the scheduler only when it is not running; disabling
\* removes the job when it is running (remove_job of a job that is not
\* there raises and leaves the scheduler as it is).
Reschedule(c, enabled) ==
  IF enabled
  THEN (IF ~c.running THEN [c EXCEPT !.job = TRUE, !.running = TRUE] ELSE c)
  ELSE (IF c.running THEN [c EXCEPT !.job = FALSE] ELSE c)

\* POST /api/token-refresh/enabled: config.set_at_auto_refresh_enabled, the
\* database write, which may fail, and then the scheduler.
UpdateAtAutoRefreshEnabled ==
  /\ conf.pc = "ready"
  /\ \E enabled, written \in BOOLEAN :
       LET set == [conf EXCEPT !.at_auto_refresh_enabled = enabled]
       IN conf' = IF written THEN Reschedule(set, enabled) ELSE set
  /\ UNCHANGED <<handlerVars, sentinelVars, streamVars, auth, poll, pow, text,
                 cameo, sync>>

\* ------------------------------------------------------------ cameo poll
\* The most passes of the loop, int(timeout / poll_interval) (120 with the
\* defaults), scaled down.
MaxCameoAttempts == 6
max_consecutive_errors == 3

\* What get_cameo_status does in one pass: it raises, it answers with a
\* status that is not final, or it answers "Completed" / "finalized".
CameoAnswers == {"error", "pending", "done"}

\* One call of _poll_cameo_status.
NewCameo ==
  [pc |-> "idle",
   max_attempts |-> 0,
   attempt |-> 0,
   consecutive_errors |-> 0,
   polls |-> <<>>,           \* what each poll so far did
   err |-> "none"]

\* consecutive_errors after a poll that answered.
ResetErrors_Keep(consecutive_errors) == consecutive_errors

ResetErrors(consecutive_errors) == 0

\* _poll_cameo_status up to its loop.
PollCameoStart ==
  /\ cameo.pc = "idle"
  /\ \E max_attempts \in 1..MaxCameoAttempts :
       cameo' = [cameo EXCEPT !.pc = "loop", !.max_attempts = max_attempts]
  /\ UNCHANGED <<handlerVars, sentinelVars, streamVars, auth, poll, pow, text,
                 conf, sync>>

\* One pass of the loop that is not stopped by the elapsed time: the sleep,
\* get_cameo_status and either the answer (the count is reset; a final
\* status returns) or the except clause (the count grows; the third error in
\* a row raises, after the backoff sleep when the error is a TLS one).
PollCameoPass ==
  /\ cameo.pc = "loop"
  /\ cameo.attempt < cameo.max_attempts
  /\ \E answer \in CameoAnswers :
       LET polled == [cameo EXCEPT !.attempt = @ + 1,
                                   !.polls = Append(@, answer)]
           errors == cameo.consecutive_errors + 1
       IN cameo' =
            CASE answer = "done" ->
                   [polled EXCEPT !.pc = "returned",
                     !.consecutive_errors = ResetErrors(@)]
              [] answer = "pending" ->
                   [polled EXCEPT !.consecutive_errors = ResetErrors(@)]
              [] OTHER ->
                   IF errors >= max_consecutive_errors
                   THEN [polled EXCEPT !.pc = "raised",
                                       !.consecutive_errors = errors,
                                       !.err = "too_many_errors"]
                   ELSE [polled EXCEPT !.consecutive_errors = errors]
  /\ UNCHANGED <<handlerVars, sentinelVars, streamVars, auth, poll, pow, text,
                 conf, sync>>

\* The timeouts: `elapsed_time > timeout` at the top of a pass after the
\* first, and the raise after the loop.
PollCameoTimeout ==
  /\ cameo.pc = "loop"
  /\ cameo.attempt >= 1
  /\ cameo' = [cameo EXCEPT !.pc = "raised", !.err = "timeout"]
  /\ UNCHANGED <<handlerVars, sentinelVars, streamVars, auth, poll, pow, text,
                 conf, sync>>

\* ------------------------------------------------------------ account sync
\* The emails of the accounts of gpt_team and of the gateway.
Emails == {"a@x", "b@x", "c@x"}

\* One run of sync_accounts.
NewSync ==
  [pc |-> "idle",
   force_update |-> FALSE,
   before |-> {},            \* the gateway's accounts when the run began
   gateway |-> {},           \* the gateway's accounts
   new_accounts |-> {},      \* accounts still to add
   update_accounts |-> {},   \* accounts still to update
   failed |-> 0]

\* Steps 1 to 5 of sync_accounts: the accounts of gpt_team, the tokens of
\* the gateway, and the classification; with nothing to do, or with
\* --dry-run, the run ends here.
SyncStart ==
  /\ sync.pc = "idle"
  /\ \E gpt_accounts \in SUBSET Emails, existing_emails \in SUBSET Emails,
        force_update, dry_run \in BOOLEAN :
       LET new_accounts == gpt_accounts \ existing_emails
           update_accounts == IF force_update
                              THEN gpt_accounts \cap existing_emails ELSE {}
           ends == dry_run \/ (new_accounts = {} /\ update_accounts = {})
       IN sync' = [sync EXCEPT
                     !.pc = IF ends THEN "done" ELSE "sync",
                     !.force_update = force_update,
                     !.before = existing_emails,
                     !.gateway = existing_emails,
                     !.new_accounts = IF ends THEN {} ELSE new_accounts,
                     !.update_accounts = IF ends THEN {} ELSE update_accounts]
  /\ UNCHANGED <<handlerVars, sentinelVars, streamVars, auth, poll, pow, text,
                 conf, cameo>>

\* One pass of `for acc in new_accounts`: add_token, which may fail.
SyncAdd ==
  /\ sync.pc = "sync"
  /\ \E email \in sync.new_accounts, added \in BOOLEAN :
       sync' = [sync EXCEPT
                  !.new_accounts = @ \ {email},
                  !.gateway = IF added THEN @ \cup {email} ELSE @,
                  !.failed = IF added THEN @ ELSE @ + 1]
  /\ UNCHANGED <<handlerVars, sentinelVars, streamVars, auth, poll, pow, text,
                 conf, cameo>>

\* One pass of `for acc in update_accounts`, which follows the new
\* accounts: delete_token of the old token, whose result is not looked at,
\* then add_token; either may fail.
SyncUpdate ==
  /\ sync.pc = "sync"
  /\ sync.new_accounts = {}
  /\ \E email \in sync.update_accounts, deleted, added \in BOOLEAN :
       LET without == IF deleted THEN sync.gateway \ {email}
                      ELSE sync.gateway
       IN sync' = [sync EXCEPT
                     !.update_accounts = @ \ {email},
                     !.gateway = IF added THEN without \cup {email}
                                 ELSE without,
                     !.failed = IF added THEN @ ELSE @ + 1]
  /\ UNCHANGED <<handlerVars, sentinelVars, streamVars, auth, poll, pow, text,
                 conf, cameo>>

\* Step 7: the summary.
SyncEnd ==
  /\ sync.pc = "sync"
  /\ sync.new_accounts = {}
  /\ sync.update_accounts = {}
  /\ sync' = [sync EXCEPT !.pc = "done"]
  /\ UNCHANGED <<handlerVars, sentinelVars, streamVars, auth, poll, pow, text,
                 conf, cameo>>

Init ==
  /\ InitHandler
  /\ sentinel = [cached |-> 0, playwright |-> TRUE]
  /\ call = [c \in Callers |-> NewCall]
  /\ run = NewRun
  /\ admin = NewAdmin
  /\ auth = NewAuth
  /\ poll = NewPoll
  /\ pow = NewPow
  /\ text = NewText
  /\ conf = NewConf
  /\ cameo = NewCameo
  /\ sync = NewSync

Next ==
  \E r \in Requests :
    \/ Start(r)
    \/ Select(r)
    \/ AcquireLock(r)
    \/ AcquireSlot(r)
    \/ UploadImage(r)
    \/ CreateCharacter(r)
    \/ Submit(r)
    \/ PollAttempt(r)
    \/ PollElapsedTimeout(r)
    \/ PollMaxAttempts(r)
    \/ PollTimeoutFail(r)
    \/ HandlerSuccess(r)
    \/ HandlerExcept(r)
    \/ Cancel(r)

Spec == Init /\ [][Next]_vars

\* The sentinel cache of one process: empty at start; PLAYWRIGHT_AVAILABLE
\* is fixed at import.
InitSentinel ==
  /\ tokens = [t \in TokenIds |->
                 [image_concurrency |-> 1, video_concurrency |-> 1]]
  /\ token_lock = [t \in TokenIds |-> FALSE]
  /\ image_used = [t \in TokenIds |-> 0]
  /\ video_used = [t \in TokenIds |-> 0]
  /\ req = [r \in Requests |-> NewRequest]
  /\ \E pw \in BOOLEAN :
       sentinel = [cached |-> 0, playwright |-> pw]
  /\ call = [c \in Callers |-> NewCall]
  /\ run = NewRun
  /\ admin = NewAdmin
  /\ auth = NewAuth
  /\ poll = NewPoll
  /\ pow = NewPow
  /\ text = NewText
  /\ conf = NewConf
  /\ cameo = NewCameo
  /\ sync = NewSync

NextSentinel ==
  \E c \in Callers :
    \/ GetCached(c)
    \/ FetchOaiDid(c)
    \/ SdkInvoke(c)
    \/ ManualSentinel(c)
    \/ NfCreate(c)

SpecSentinel == InitSentinel /\ [][NextSentinel]_vars

\* One call of handle_generation and one cancel_task over a pool that other
\* requests leave either free or fully taken.
InitStream ==
  /\ tokens = [t \in TokenIds |->
                 [image_concurrency |-> 1, video_concurrency |-> 1]]
  /\ \E busy \in BOOLEAN :
       /\ token_lock = [t \in TokenIds |-> busy]
       /\ image_used = [t \in TokenIds |-> IF busy THEN 1 ELSE 0]
       /\ video_used = [t \in TokenIds |-> IF busy THEN 1 ELSE 0]
  /\ req = [r \in Requests |-> NewRequest]
  /\ sentinel = [cached |-> 0, playwright |-> TRUE]
  /\ call = [c \in Callers |-> NewCall]
  /\ run = NewRun
  /\ admin = NewAdmin
  /\ auth = NewAuth
  /\ poll = NewPoll
  /\ pow = NewPow
  /\ text = NewText
  /\ conf = NewConf
  /\ cameo = NewCameo
  /\ sync = NewSync

NextStream ==
  \/ HandleGeneration
  \/ CheckTokenAvailability
  \/ SelectToken
  \/ Acquire
  \/ Upload
  \/ SubmitGeneration
  \/ CharacterCreate
  \/ SetCharacterPublic
  \/ PollPending
  \/ PollDrafts
  \/ Publish
  \/ CacheWatermarkFree
  \/ DeletePost
  \/ Fallback
  \/ PollImage
  \/ Complete
  \/ PollTimeout
  \/ AfterPoll
  \/ Except
  \/ Finally
  \/ DeleteCharacter
  \/ Close
  \/ CancelTaskRead
  \/ CancelTaskWrite
  \/ CancelTaskCloseLog

SpecStream == InitStream /\ [][NextStream]_vars

\* Start-up: no request, no session, no call of the helpers.
InitIdle ==
  /\ tokens = [t \in TokenIds |->
                 [image_concurrency |-> 1, video_concurrency |-> 1]]
  /\ token_lock = [t \in TokenIds |-> FALSE]
  /\ image_used = [t \in TokenIds |-> 0]
  /\ video_used = [t \in TokenIds |-> 0]
  /\ req = [r \in Requests |-> NewRequest]
  /\ sentinel = [cached |-> 0, playwright |-> TRUE]
  /\ call = [c \in Callers |-> NewCall]
  /\ run = NewRun
  /\ admin = NewAdmin
  /\ auth = NewAuth
  /\ poll = NewPoll
  /\ pow = NewPow
  /\ text = NewText
  /\ conf = NewConf
  /\ cameo = NewCameo
  /\ sync = NewSync

NextAdmin ==
  \/ Login
  \/ AdminCall
  \/ Logout
  \/ UpdateAdminPasswordBegin
  \/ UpdateAdminPasswordCommit

SpecAdmin == InitIdle /\ [][NextAdmin]_vars

NextPoll ==
  \/ PollLoopStart
  \/ PollLoopCheck
  \/ PollLoopSleep
  \/ PollLoopRequest

SpecPoll == InitIdle /\ [][NextPoll]_vars

NextPow ==
  \/ SolvePowStart
  \/ SolvePowIterate
  \/ SolvePowGiveUp

SpecPow == InitIdle /\ [][NextPow]_vars

NextText ==
  \/ CleanRemixLink
  \/ CleanAgain
  \/ SubmitVideoPrompt

SpecText == InitIdle /\ [][NextText]_vars

NextConf ==
  \/ Startup
  \/ AddToken
  \/ UpdateToken
  \/ ImportTokens
  \/ ImportPureRt
  \/ UpdateGenerationTimeout
  \/ UpdateAtAutoRefreshEnabled

SpecConf == InitIdle /\ [][NextConf]_vars

NextCameo ==
  \/ PollCameoStart
  \/ PollCameoPass
  \/ PollCameoTimeout

SpecCameo == InitIdle /\ [][NextCameo]_vars

NextSync ==
  \/ SyncStart
  \/ SyncAdd
  \/ SyncUpdate
  \/ SyncEnd

SpecSync == InitIdle /\ [][NextSync]_vars


\* ------------------------------------------------------------ claims
Done(r) == req[r].pc = "done"
\* The request's handler ended without being cancelled: it returned or it
\* raised an exception of its own.
Ended(r) == Done(r) /\ req[r].err # "cancelled"

\* The jobs of a class in flight on a token: submitted (the task exists) by
\* a handler that has not ended.
InFlight(t, video) ==
  {r \in Requests : /\ req[r].tok = t
                    /\ req[r].task # "none"
                    /\ req[r].pc # "done"
                    /\ IsVideo(req[r].branch) = video}

Max(a, b) == IF a >= b THEN a ELSE b

\* C1: when a streaming request that acquired the image lock and/or a
\* concurrency slot has ended (success, upload / submit / upstream error,
\* either poll timeout), each resource it acquired was released exactly once.
C1_ReleasedExactlyOnce ==
  \A r \in Requests :
    Ended(r) => /\ req[r].lockAcq => req[r].relLock = 1
                /\ req[r].slotAcq => req[r].relSlot = 1

\* C2: at every instant, for every token, at most max(1, image_concurrency)
\* image jobs and at most max(1, video_concurrency) video jobs are in flight.
C2_InFlightWithinCaps ==
  \A t \in TokenIds :
    /\ Cardinality(InFlight(t, FALSE)) <= Max(1, ImageCap(t))
    /\ Cardinality(InFlight(t, TRUE)) <= Max(1, VideoCap(t))

\* C3: when a streaming request was cancelled after it acquired the image
\* lock or a concurrency slot, the handler's release ran: the lock and the
\* slot it acquired were released.
C3_CancelReleases ==
  \A r \in Requests :
    (Done(r) /\ req[r].err = "cancelled") =>
      /\ req[r].lockAcq => req[r].relLock >= 1
      /\ req[r].slotAcq => req[r].relSlot >= 1

\* The calls inside _generate_sentinel_token_lightweight.
Generating == {c \in Callers : call[c].pc \in {"did", "sdk"}}

\* C4: the sentinel cache is single-flight: of N concurrent generate_video
\* calls that find the cache empty or refresh it, only one runs
\* _generate_sentinel_token_lightweight at a time (the others wait for its
\* result).
C4_SingleFlight == Cardinality(Generating) <= 1

\* C5 as stated: whenever the first /nf/create of a call failed with a 400 or
\* a text matching sentinel|invalid|400, a fresh token is obtained and
\* /nf/create is retried: the call ends having issued exactly two requests.
C5_RetriedExactlyOnce ==
  \A c \in Callers :
    (call[c].pc = "done" /\ call[c].first = "retryable")
      => call[c].ncreate = 2

\* C5 as amended: a first /nf/create failure with a 400 or a text matching
\* sentinel|invalid|400 empties the cache and starts one refresh; the call
\* then ends either after exactly one retry (carrying a token other than the
\* first, its result or its error being the call's) or, without a retry,
\* with the error that the refresh raised. No call issues more than two
\* /nf/create requests, and a second one only after it emptied the cache.
C5_RefreshOnceThenRetryOnce ==
  \A c \in Callers :
    LET k == call[c]
    IN /\ k.ncreate <= 2
       /\ k.ncreate = 2 => (k.inv /\ k.tok # k.tok1)
       /\ k.first = "retryable" => (k.inv /\ k.refreshes = 1)
       /\ (k.pc = "done" /\ k.first = "retryable") =>
            \/ /\ k.ncreate = 2
               /\ k.result = "ok" \/ k.err.src = "nf_create"
            \/ /\ k.ncreate = 1
               /\ k.result = "raised"
               /\ k.err.src \in {"oai_did", "sentinel_req"}

\* C5's case: a call whose first /nf/create failed with a retryable error
\* and whose retry, with the refreshed token, succeeded.
C5_Witness ==
  \E c \in Callers :
    /\ call[c].pc = "done"
    /\ call[c].first = "retryable"
    /\ call[c].ncreate = 2
    /\ call[c].result = "ok"

\* C6: once a call has received a 403 or a 429 (from /nf/create or while
\* acquiring the sentinel token) it takes no further step: no /nf/create, no
\* cache refresh, no manual PoW.
C6_NoStepAfter403Or429 ==
  \A c \in Callers : ~call[c].afterBlocked

\* C7: a streaming generation that failed because upstream answered 403 or
\* 429 recorded no error against the selected token.
C7_NoPenaltyFor403Or429 ==
  \A r \in Requests :
    (Done(r) /\ req[r].err = "upstream_unavailable") => req[r].recErr = 0

\* C8: in every streaming branch, a failure caught after a token was
\* selected recorded exactly one error against the token, unless its kind is
\* cancelled, no_eligible_token, invalid_model or upstream_unavailable.
C8_OneErrorPerCaughtFailure ==
  \A r \in Requests :
    (Done(r) /\ req[r].tok # 0 /\ req[r].err \notin ExemptKinds \cup {"none"})
      => req[r].recErr = 1

\* C9: once a poll of an image task has reported status failed, no further
\* get_image_tasks call is made for the task.
C9_FailedEndsImagePolling ==
  \A r \in Requests : ~req[r].pollAfterFail

\* C10: whenever polling of a created task ended at the timeout bound
\* (elapsed time above the timeout, all attempts used, the last attempt's
\* poll raising), the stored status is failed and the error raised to the
\* caller is the upstream-timeout error.
C10_TimeoutMarksFailed ==
  \A r \in Requests :
    (Ended(r) /\ req[r].atBound) =>
      /\ req[r].task = "failed"
      /\ req[r].err = "upstream_timeout"

\* C11: the stored status of a task only ever changes from processing to
\* completed or from processing to failed (after create_task set it to
\* processing), under every interleaving of the poll loop's update_task
\* calls with cancel_task.
C11_StatusOnlyLeavesProcessing ==
  [][run'.task # run.task =>
       \/ run.task = "none" /\ run'.task = "processing"
       \/ run.task = "processing" /\ run'.task \in {"completed", "failed"}]_vars

\* C12: during the video polling of one task get_video_drafts is called at
\* most once (at the first poll that does not list the task as pending).
C12_DraftsFetchedOnce == run.drafts <= 1

\* The positions of the chunks with finish_reason STOP in the stream.
StopIndexes == {i \in 1..Len(run.out) : run.out[i].finish = "STOP"}

\* C13: a stream that completed successfully holds exactly one chunk with
\* finish_reason STOP, the [DONE] line right after it, and nothing after
\* the [DONE] line.
C13_StopThenDoneLast ==
  (run.pc = "done" /\ run.err = "none" /\ run.stream
     /\ run.kind # "invalid") =>
    /\ Cardinality(StopIndexes) = 1
    /\ \A i \in StopIndexes :
         /\ i + 1 = Len(run.out)
         /\ run.out[i + 1].kind = "done"

\* C14: in every stream the first chunk carries role assistant and no later
\* chunk carries a role, with or without an image upload and in the remix
\* and character branches.
C14_RoleOnFirstChunkOnly ==
  (run.stream /\ run.kind # "invalid") =>
    \A i \in 1..Len(run.out) : run.out[i].role <=> (i = 1)

\* C14's case: a video stream that uploaded an image first and ran to its
\* [DONE] line.
C14_Witness ==
  /\ run.pc = "done"
  /\ run.err = "none"
  /\ run.branch = "video"
  /\ run.args.image
  /\ "upload_image" \in run.calls
  /\ Len(run.out) >= 5

\* C15: with stream=false and a model of the table the run emits one
\* completion and nothing else happens: no token is held, no lock or slot
\* is acquired, no client method is called, no task is created and nothing
\* is recorded, whatever the other arguments are.
C15_NonStreamConsumesNothing ==
  (~run.stream /\ run.kind \in {"image", "video"}) =>
    /\ run.tok = 0
    /\ run.acquired = {}
    /\ run.calls = {}
    /\ run.task = "none"
    /\ run.recorded = {}
    /\ run.selects <= 1
    /\ run.pc = "done" => (run.out = <<FormatNonStreamResponse>>
                           /\ run.err = "none")
    /\ run.pc # "done" => run.out = <<>>

\* C15's case: a finished stream=false call of a video model that was given
\* an image, a video and a remix target.
C15_Witness ==
  /\ run.pc = "done"
  /\ ~run.stream
  /\ run.kind = "video"
  /\ run.args.remix /\ run.args.image /\ run.args.video
  /\ Len(run.out) = 1

\* C16: a call with a model name outside the table ends with the
\* invalid-model error before any token is selected, any lock or slot is
\* acquired and any client method is called, with stream true or false.
C16_InvalidModelFailsFirst ==
  run.kind = "invalid" =>
    /\ run.pc = "done"
    /\ run.err = "invalid_model"
    /\ run.selects = 0
    /\ run.tok = 0
    /\ run.acquired = {}
    /\ run.calls = {}
    /\ run.out = <<>>

\* C16's case: a stream=false call with an unknown model has ended.
C16_Witness ==
  /\ run.pc = "done"
  /\ run.kind = "invalid"
  /\ ~run.stream
  /\ run.err = "invalid_model"

\* C17: when a step of the watermark-free sub-flow failed, the result is the
\* draft's downloadable_url only if fallback_on_failure is enabled.
C17_FallbackOnlyIfEnabled ==
  (run.wmFailed /\ run.fellBack) => run.wm.fallback_on_failure

\* C18: when a request whose watermark-free sub-flow published a post has
\* completed, delete_post was called for the post.
C18_PublishedPostDeleted ==
  (run.pc = "done" /\ run.err = "none" /\ run.post_id) => run.post_deleted

\* C19: when the character+video flow has ended after finalize_character
\* returned a character id, delete_character was called for it, on every
\* exit path (success, failure, the caller ceasing to read).
C19_CharacterDeleted ==
  (run.pc = "done" /\ run.branch = "character_video" /\ run.character_id)
    => run.char_deleted

\* C20: a request fails with no-eligible-token at the acquisition of the
\* lock or the slot of its selected token only if no other token is
\* eligible at that moment (otherwise it proceeds on another token).
C20_FallsThroughToAnotherToken ==
  [][\A r \in Requests :
       (/\ req[r].pc \in {"lock", "slot"}
        /\ req'[r].pc = "done"
        /\ req'[r].err = "no_eligible_token")
         => Eligible(IsImage(req[r].branch)) \ {req[r].tok} = {}]_vars

C22_CancelClosesLog ==
  admin.result = "cancelled" => run.task = "failed" /\ run.log.status_code = 499

\* C23 (as stated): every request the client made for the run went through
\* the proxy resolved for the selected token.
C23_TokenProxyUsed ==
  \A p \in run.proxies : p = GetProxyUrl(run.tok)

\* The run has passed a cache step whose download failed for some url.
CacheFailed == \E i \in 1..Len(run.downloads) : run.downloads[i] = "failed"

\* C24: the final url is the upstream url for every result url whose
\* download_and_cache call failed, and for all of them, without any call,
\* when the cache is disabled; a failed download never fails the request:
\* the final content is yielded and the run ends without an error unless
\* the caller stops reading.
C24_UpstreamUrlWithoutCache ==
  /\ Len(run.urls) = Len(run.downloads)
  /\ \A i \in 1..Len(run.urls) :
       /\ run.downloads[i] = "failed" => run.urls[i] = "upstream"
       /\ ~run.cache_enabled =>
            run.downloads[i] = "none" /\ run.urls[i] = "upstream"
  /\ CacheFailed =>
       /\ run.pc \in {"complete", "returned", "closing", "cleanup", "done"}
       /\ run.err \in {"none", "cancelled"}
       /\ run.pc # "complete" /\ run.err = "none" =>
            \E k \in 1..Len(run.out) : run.out[k] = StopChunk

\* An image run that ended with two urls, one cached and one not.
C24_Witness ==
  /\ run.pc = "done"
  /\ run.err = "none"
  /\ CacheFailed
  /\ run.cache_enabled
  /\ run.branch = "image"
  /\ Len(run.urls) = 2
  /\ run.urls[1] # run.urls[2]

\* C30 (as stated): an image request that acquired its resources and ended
\* acquired the lock, then the slot, and released the slot, then the lock.
C30_ReleasedInReverse ==
  run.pc = "done" /\ "lock" \in run.acquired =>
    run.events = AcquireOrder \o <<"release_image", "release_lock">>

\* C25 (as stated): a call of _poll_task_result that ended made at most
\* floor(timeout / poll_interval) poll requests and ended no later than
\* timeout + poll_interval after it started.
C25_PollEndsInTime ==
  poll.pc = "ended" =>
    /\ poll.polls <= poll.timeout \div poll.poll_interval
    /\ poll.elapsed <= poll.timeout + poll.poll_interval

\* The first L bytes of the digest of iteration i's output are at most the
\* target, for L half the length of the difficulty string.
C26_Meets(i) ==
  LET L == Len(pow.difficulty) \div 2
      h == pow.digest[i]
      prefix == [k \in 1..(IF L < Len(h) THEN L ELSE Len(h)) |-> h[k]]
  IN LexLeq(prefix, FromHex(pow.difficulty))

\* C26: _solve_pow returns success only with an output whose digest meets
\* the target; when no iteration's output meets it, it returns failure with
\* the error token, which depends on the seed alone.
C26_SuccessMeetsTarget ==
  pow.pc = "returned" =>
    /\ pow.success =>
         /\ pow.output.kind = "answer"
         /\ pow.output.i \in 0..(POW_MAX_ITERATION - 1)
         /\ C26_Meets(pow.output.i)
    /\ (\A i \in 0..(POW_MAX_ITERATION - 1) : ~C26_Meets(i)) =>
         ~pow.success /\ pow.output = [kind |-> "error", seed |-> pow.seed]

\* A success after a pass that failed, against a target shorter than the
\* digest.
C26_Witness ==
  /\ pow.pc = "returned"
  /\ pow.success
  /\ pow.output.i > 0
  /\ Len(pow.difficulty) = 2
  /\ pow.target_diff # <<3>>

\* C27 (as stated): the cleaner applied to its own result changes nothing.
C27_CleanIdempotent ==
  text.pc = "recleaned" => text.recleaned = text.cleaned

\* The text that follows the tag at the head of s up to the next tag.
RECURSIVE UpToNextTag(_)
UpToNextTag(s) ==
  IF s = <<>> \/ Head(s) \in DurationTags THEN <<>>
  ELSE <<Head(s)>> \o UpToNextTag(Tail(s))

\* One block per tag of s, in order: the tag's number and the trimmed text
\* up to the next tag.
RECURSIVE ShotPerTag(_)
ShotPerTag(s) ==
  IF s = <<>> THEN <<>>
  ELSE IF Head(s) \in DurationTags
       THEN <<[duration |-> Duration(Head(s)),
               scene |-> Strip(UpToNextTag(Tail(s)))]>>
            \o ShotPerTag(Tail(s))
       ELSE ShotPerTag(Tail(s))

\* C28 (as stated): the output for a prompt with tags has one Shot block per
\* tag, in order, with the tag's number as duration and the trimmed text up
\* to the next tag as scene.
C28_ShotPerTag ==
  text.endpoint = "generate_storyboard" =>
    /\ ~text.sent.raw
    /\ [k \in 1..Len(text.sent.shots) |->
          [duration |-> text.sent.shots[k].duration,
           scene |-> text.sent.shots[k].scene]] = ShotPerTag(text.prompt)

\* The trimmed text before the first tag of s.
RECURSIVE BeforeFirstTag(_)
BeforeFirstTag(s) ==
  IF s = <<>> \/ Head(s) \in DurationTags THEN <<>>
  ELSE <<Head(s)>> \o BeforeFirstTag(Tail(s))

\* C29 (as stated): a prompt with a tag is sent to the storyboard endpoint
\* as Shot blocks, never as it was given, with the text before the first
\* tag as instructions when there is any.
C29_NeverRawToStoryboard ==
  text.endpoint = "generate_storyboard" =>
    /\ ~text.sent.raw
    /\ text.sent.shots # <<>>
    /\ Strip(BeforeFirstTag(text.prompt)) # <<>> =>
         text.sent.instructions = Strip(BeforeFirstTag(text.prompt))

\* C31 (as stated): every /nf/create request carries the User-Agent and the
\* device id its sentinel token was minted under.
C31_HeadersMatchMint ==
  \A c \in Callers : \A h \in call[c].sends :
    h.ua = h.minted.ua /\ h.device = h.minted.device

\* C34 (as stated): _fetch_oai_did returns no device id after a 403 or 429
\* answer.
C34_NoDeviceIdAfterBlock ==
  \A c \in Callers : ~call[c].did403

\* C32 (as stated): the concurrency manager's limits of every token with a
\* row are the caps of the row.
C32_LimitsEqualRow ==
  \A t \in TokenIds : conf.rows[t] # NoRow => conf.limits[t] = conf.rows[t]

\* C33 (as stated): the token lock's timeout is config.image_timeout.
C33_LockTimeoutIsImageTimeout ==
  conf.lock_timeout = conf.image_timeout

\* C38 (as stated): the batch-refresh job is scheduled exactly when
\* at_auto_refresh_enabled is set.
C38_JobIffEnabled ==
  conf.job <=> conf.at_auto_refresh_enabled

\* C35 (as stated): the text serialized at iteration i has i in slot 3 and
\* initial_j + ceiling((i + 1) / 30) in slot 9.
C35_SlotsOfIteration ==
  pow.final_json # <<>> =>
    /\ pow.final_json.slot3 = pow.final_json.i
    /\ pow.final_json.slot9 = pow.initial_j + (pow.final_json.i + 30) \div 30

\* C36 (as stated): a step that frees a token's image lock is the first
\* release of a request that acquired the lock of that token and has not
\* released it yet, that is, of the request that holds it.
C36_ReleaseFreesOwnLock ==
  [][\A t \in TokenIds :
       (token_lock[t] /\ ~token_lock'[t]) =>
         \E r \in Requests : /\ req[r].tok = t
                             /\ req[r].lockAcq
                             /\ req[r].relLock = 0
                             /\ req'[r].relLock = 1]_vars

C39_RefusalChangesNothing ==
  [][(admin.pc = "idle" /\ admin'.pc # "idle"
        /\ run.task \notin {"none", "processing"}) =>
       (admin' = [pc |-> "done", result |-> "refused"] /\ run' = run)]_vars

\* cancel_task refused a task that had ended while its request log row,
\* if any, is as the stream left it.
C39_Witness ==
  /\ admin.result = "refused"
  /\ run.task \in {"completed", "failed"}

\* C40 (as stated): after a run with --force-update every account the
\* gateway had before the run is still there.
C40_NoAccountLost ==
  (sync.pc = "done" /\ sync.force_update) => sync.before \subseteq sync.gateway

====
